---- MODULE Spec2Model ----
(***************************************************************************)
(* A model of soltxs: the instruction router (parser.parse), the program   *)
(* decoders' dispatch (Program.route), the unified account list            *)
(* (Transaction.all_accounts) and the resolver (resolver.resolve with its  *)
(* PumpFun, Raydium and Unknown rules).                                    *)
(*                                                                         *)
(* Conventions.                                                            *)
(*  - A Python list is a TLA+ sequence; Python index i is position i+1.    *)
(*  - Instruction data is kept as the byte sequence its base58 text        *)
(*    encodes (qbase58 is a third-party codec).                            *)
(*  - A Python object is a record whose cls field names its class, so that *)
(*    isinstance is a test on cls.                                         *)
(*  - A call that can raise returns [ok |-> TRUE, val |-> v] or            *)
(*    [ok |-> FALSE, err |-> <exception class>].                           *)
(*  - The quotient a / b of Python's true division is kept as the pair     *)
(*    [num |-> a, den |-> b]; an integer n left undivided is [num |-> n,   *)
(*    den |-> 1].                                                          *)
(***************************************************************************)
EXTENDS Integers, Sequences, FiniteSets, TLC

VARIABLES
    tx,                  \* the normalized Transaction handed to parse
    pc,                  \* position of the parse call
    idx,                 \* parse: loop index of enumerate(tx.message.instructions)
    parsed_instructions, \* parse: the list being accumulated
    origin,              \* history: for each accumulated record, the idx it was appended at
    returned,            \* parse: the ParsedTransaction returned, or the exception raised
    combined,            \* result of the last tx.all_accounts evaluation
    looked,              \* result of the last tx.all_accounts[i] subscription
    parsed_data,         \* the argument of resolver.resolve
    r_pc,                \* position of the resolve call
    r_instructions,      \* resolve: local variable instructions
    r_k,                 \* resolve: position in the transformer tuple
    attempts,            \* history: the transformer calls made, with their results
    resolved,            \* resolve: the value returned
    correlated,          \* result of the last _parse_swap call
    id_to_handler,       \* the module-level dict of parser: program id -> decoder
    desc_maps,           \* the desc_map attribute of each decoder in id_to_handler
    calls,               \* for each caller, the locals of its parse and resolve calls
    dispatch_log         \* history: the dispatch of each CallerStep

vars == <<tx, pc, idx, parsed_instructions, origin, returned, combined, looked,
          parsed_data, r_pc, r_instructions, r_k, attempts, resolved,
          correlated, id_to_handler, desc_maps, calls, dispatch_log>>

parseVars == <<pc, idx, parsed_instructions, origin, returned>>
accountVars == <<combined, looked>>
resolveVars == <<parsed_data, r_pc, r_instructions, r_k, attempts, resolved>>
sharedVars == <<id_to_handler, desc_maps>>
callerVars == <<calls, dispatch_log>>

-----------------------------------------------------------------------------
(* Python values *)

\* Python's None where an object or an address is expected.
None == [cls |-> "NoneType"]
NoneStr == "None"

Ok(v) == [ok |-> TRUE, val |-> v]
Raise(e) == [ok |-> FALSE, err |-> e]

\* list[i] with Python's index rule: a negative index counts from the end,
\* anything outside -len..len-1 raises IndexError.
PyIndex(list, i) ==
    IF i >= 0 /\ i < Len(list) THEN Ok(list[i + 1])
    ELSE IF i < 0 /\ i >= -Len(list) THEN Ok(list[Len(list) + i + 1])
    ELSE Raise("IndexError")

\* All sequences over S of length lo..hi.
SeqsOf(S, lo, hi) == UNION {[1..n -> S] : n \in lo..hi}

RECURSIVE CountWhere(_, _)
\* The number of positions of list whose record has class c.
CountWhere(list, c) ==
    IF list = <<>> THEN 0
    ELSE (IF Head(list).cls = c THEN 1 ELSE 0) + CountWhere(Tail(list), c)

-----------------------------------------------------------------------------
(* Addresses *)

SystemProgramId == "11111111111111111111111111111111"
ComputeBudgetId == "ComputeBudget111111111111111111111111111111"
TokenProgramId == "TokenkegQfeZyiNwAJbNbGKPFXCWuBvf9Ss623VQ5DA"
PumpFunId == "6EF8rrecthR5Dkzon8Nwu78hRvfCKubJ14M5uBEwF6P"
\* The AMM decoder's program id (its module is not part of the sources).
RaydiumAMMId == "RaydiumAMMProgramId"

WSOL_MINT == "So11111111111111111111111111111111111111112"
SOL_MINT == "11111111111111111111111111111111"

-----------------------------------------------------------------------------
(* normalizer.models.Transaction *)

\* normalizer.models.Meta, by the three fields the decoders read.
Meta(preTokenBalances, postTokenBalances, innerInstructions) ==
    [preTokenBalances |-> preTokenBalances,
     postTokenBalances |-> postTokenBalances,
     innerInstructions |-> innerInstructions]

\* Transaction.blockTime is Optional[int]: None, or the integer as an object.
BlockTime(v) == [cls |-> "int", val |-> v]

Transaction(keys, instrs, writable, readonly) ==
    [slot |-> 1,
     blockTime |-> None,
     signatures |-> <<"Signature1">>,
     message |-> [accountKeys |-> keys, instructions |-> instrs],
     meta |-> Meta(<<>>, <<>>, <<>>),
     loadedAddresses |-> [writable |-> writable, readonly |-> readonly]]

\* normalizer.models.TokenBalance with its uiTokenAmount.decimals.
TokenBalance(mint, decimals) ==
    [mint |-> mint, uiTokenAmount |-> [decimals |-> decimals]]

\* normalizer.models.Instruction; data is None or the text, kept as its bytes.
Instruction(programIdIndex, data, accounts) ==
    [programIdIndex |-> programIdIndex, data |-> data, accounts |-> accounts]

\* An instruction's data text, by the bytes it encodes.
Data(bytes) == [str |-> bytes]

EmptyTransaction == Transaction(<<>>, <<>>, <<>>, <<>>)

\* A variant of all_accounts with the two loaded lists in the wrong order.
all_accounts_readonly_first(t) ==
    t.message.accountKeys \o t.loadedAddresses.readonly \o t.loadedAddresses.writable

\* Transaction.all_accounts: list(accountKeys), extend(writable), extend(readonly).
all_accounts(t) ==
    t.message.accountKeys \o t.loadedAddresses.writable \o t.loadedAddresses.readonly

-----------------------------------------------------------------------------
(* The account resolver on its own: all_accounts and a subscription of it *)

MaxKeys == 2

StaticSamples == {"S1", "S2"}
WritableSamples == {"W1", "W2"}
ReadonlySamples == {"R1", "R2"}

AccountLayouts ==
    {Transaction(k, <<>>, w, r) :
        k \in SeqsOf(StaticSamples, 0, MaxKeys),
        w \in SeqsOf(WritableSamples, 0, MaxKeys),
        r \in SeqsOf(ReadonlySamples, 0, MaxKeys)}

\* No parse call has been made.
ParseIdle ==
    /\ pc = "idle" /\ idx = 0 /\ parsed_instructions = <<>> /\ origin = <<>>
    /\ returned = None

\* all_accounts has not been evaluated.
AccountsIdle == combined = None /\ looked = None

\* No resolve call has been made.
ResolveIdle ==
    /\ r_pc = "idle" /\ r_instructions = <<>> /\ r_k = 0
    /\ attempts = <<>> /\ resolved = None

\* combined = tx.all_accounts
EvalAllAccounts ==
    /\ combined = None
    /\ combined' = Ok(all_accounts(tx))
    /\ UNCHANGED <<tx, correlated, sharedVars, callerVars, looked, parseVars, resolveVars>>

\* tx.all_accounts[i], the expression every decoder uses to turn an account
\* index into an address.
Subscript(i) ==
    /\ looked' = [index |-> i, result |-> PyIndex(all_accounts(tx), i)]
    /\ UNCHANGED <<tx, correlated, sharedVars, callerVars, combined, parseVars, resolveVars>>

NStatic == Len(tx.message.accountKeys)
NWritable == Len(tx.loadedAddresses.writable)
NReadonly == Len(tx.loadedAddresses.readonly)

\* The address the three source lists hold for unified index i (0-based).
ByPosition(i) ==
    IF i < NStatic THEN tx.message.accountKeys[i + 1]
    ELSE IF i < NStatic + NWritable THEN tx.loadedAddresses.writable[i - NStatic + 1]
    ELSE tx.loadedAddresses.readonly[i - NStatic - NWritable + 1]

\* C10: the unified account list is staticKeys ++ loadedWritable ++
\* loadedReadonly: it has len(static)+len(writable)+len(readonly) entries, and
\* every index i in that range resolves to static[i], writable[i-len(static)]
\* or readonly[i-len(static)-len(writable)] according to the range i falls
\* in, so an index >= len(static) never resolves into the static keys.
C10_AccountIndexInvariant ==
    /\ combined # None =>
        /\ Len(combined.val) = NStatic + NWritable + NReadonly
        /\ \A i \in 0..(Len(combined.val) - 1) : combined.val[i + 1] = ByPosition(i)
    /\ (looked # None /\ looked.index >= 0
            /\ looked.index < NStatic + NWritable + NReadonly) =>
        /\ looked.result = Ok(ByPosition(looked.index))
        /\ looked.index >= NStatic =>
            looked.result.val \in WritableSamples \cup ReadonlySamples

\* A lookup that landed in the readonly part, behind a non-empty writable part.
C10_Witness ==
    /\ combined # None
    /\ looked # None
    /\ NStatic > 0 /\ NWritable > 0 /\ NReadonly > 1
    /\ looked.index = NStatic + NWritable + 1
    /\ looked.result.ok

-----------------------------------------------------------------------------
(* resolver: the rules *)

LAMPORTS_PER_SOL == 1000000000

RECURSIVE Pow10(_)
\* 10**n for n >= 0.
Pow10(n) == IF n = 0 THEN 1 ELSE 10 * Pow10(n - 1)

\* a / b (true division), and an integer passed through undivided.
TrueDiv(a, b) == [num |-> a, den |-> b]
Undivided(n) == [num |-> n, den |-> 1]

\* [i for i in instructions if isinstance(i, <class c>)]
OfClass(instructions, c) == SelectSeq(instructions, LAMBDA i : i.cls = c)

\* A variant of the PumpFun rule that takes the first Swap when there are several.
PumpFunResolver_resolve_first_of_many(instructions) ==
    LET instrs == OfClass(instructions, "pumpfun.Swap") IN
    IF Len(instrs) >= 1
    THEN LET instr == instrs[1] IN
         [cls |-> "PumpFun",
          type |-> IF instr.is_buy THEN "buy" ELSE "sell",
          who |-> instr.user,
          from_token |-> IF instr.is_buy THEN WSOL_MINT ELSE instr.mint,
          from_amount |-> IF instr.is_buy THEN TrueDiv(instr.sol_amount, LAMPORTS_PER_SOL)
                          ELSE Undivided(instr.token_amount),
          to_token |-> IF instr.is_buy THEN instr.mint ELSE WSOL_MINT,
          to_amount |-> IF instr.is_buy THEN Undivided(instr.token_amount)
                        ELSE TrueDiv(instr.sol_amount, LAMPORTS_PER_SOL)]
    ELSE None

\* A variant of the PumpFun rule whose sell branch divides the token leg
\* instead of the SOL leg.
PumpFunResolver_resolve_sell_legs_swapped(instructions) ==
    LET instrs == OfClass(instructions, "pumpfun.Swap") IN
    IF Len(instrs) = 1
    THEN LET instr == instrs[1] IN
         [cls |-> "PumpFun",
          type |-> IF instr.is_buy THEN "buy" ELSE "sell",
          who |-> instr.user,
          from_token |-> IF instr.is_buy THEN WSOL_MINT ELSE instr.mint,
          from_amount |-> IF instr.is_buy THEN TrueDiv(instr.sol_amount, LAMPORTS_PER_SOL)
                          ELSE TrueDiv(instr.token_amount, LAMPORTS_PER_SOL),
          to_token |-> IF instr.is_buy THEN instr.mint ELSE WSOL_MINT,
          to_amount |-> IF instr.is_buy THEN Undivided(instr.token_amount)
                        ELSE Undivided(instr.sol_amount)]
    ELSE None

\* _PumpFunResolver.resolve
PumpFunResolver_resolve(instructions) ==
    LET instrs == OfClass(instructions, "pumpfun.Swap") IN
    IF Len(instrs) = 1
    THEN LET instr == instrs[1] IN
         IF instr.is_buy
         THEN [cls |-> "PumpFun",
               type |-> "buy",
               who |-> instr.user,
               from_token |-> WSOL_MINT,
               from_amount |-> TrueDiv(instr.sol_amount, LAMPORTS_PER_SOL),
               to_token |-> instr.mint,
               to_amount |-> Undivided(instr.token_amount)]
         ELSE [cls |-> "PumpFun",
               type |-> "sell",
               who |-> instr.user,
               from_token |-> instr.mint,
               from_amount |-> Undivided(instr.token_amount),
               to_token |-> WSOL_MINT,
               to_amount |-> TrueDiv(instr.sol_amount, LAMPORTS_PER_SOL)]
    ELSE None

\* x in {WSOL_MINT, SOL_MINT}
IsSolMint(x) == x \in {WSOL_MINT, SOL_MINT}

\* A variant of the Raydium classification that looks at the to-side first.
raydium_type_to_side_first(instr) ==
    IF IsSolMint(instr.to_token) THEN "sell"
    ELSE IF IsSolMint(instr.from_token) THEN "buy"
    ELSE "swap"

\* _RaydiumResolver.resolve, the classification
raydium_type(instr) ==
    IF IsSolMint(instr.from_token) THEN "buy"
    ELSE IF IsSolMint(instr.to_token) THEN "sell"
    ELSE "swap"

\* _RaydiumResolver.resolve, resolved_from_amount
resolved_from_amount(instr) ==
    IF IsSolMint(instr.from_token)
    THEN TrueDiv(instr.from_token_amount, LAMPORTS_PER_SOL)
    ELSE TrueDiv(instr.from_token_amount, Pow10(instr.from_token_decimals))

\* _RaydiumResolver.resolve, resolved_to_amount
resolved_to_amount(instr) ==
    IF IsSolMint(instr.to_token)
    THEN TrueDiv(instr.to_token_amount, LAMPORTS_PER_SOL)
    ELSE TrueDiv(instr.to_token_amount, Pow10(instr.to_token_decimals))

\* A variant that divides minimum_amount_out by the from-side divisor.
resolved_minimum_amount_out_from_side(instr) ==
    IF IsSolMint(instr.from_token)
    THEN TrueDiv(instr.minimum_amount_out, LAMPORTS_PER_SOL)
    ELSE TrueDiv(instr.minimum_amount_out, Pow10(instr.from_token_decimals))

\* _RaydiumResolver.resolve, resolved_minimum_amount_out
resolved_minimum_amount_out(instr) ==
    IF IsSolMint(instr.to_token)
    THEN TrueDiv(instr.minimum_amount_out, LAMPORTS_PER_SOL)
    ELSE TrueDiv(instr.minimum_amount_out, Pow10(instr.to_token_decimals))

\* _RaydiumResolver.resolve
RaydiumResolver_resolve(instructions) ==
    LET instrs == OfClass(instructions, "raydiumAMM.Swap") IN
    IF Len(instrs) = 1
    THEN LET instr == instrs[1] IN
         [cls |-> "Raydium",
          type |-> raydium_type(instr),
          who |-> instr.who,
          from_token |-> instr.from_token,
          from_amount |-> resolved_from_amount(instr),
          to_token |-> instr.to_token,
          to_amount |-> resolved_to_amount(instr),
          minimum_amount_out |-> resolved_minimum_amount_out(instr)]
    ELSE None

\* A variant of the Unknown rule that declines like the other rules.
UnknownResolver_resolve_declines(instructions) == None

\* _UnknownResolver.resolve
UnknownResolver_resolve(instructions) == [cls |-> "Unknown"]

-----------------------------------------------------------------------------
(* resolver.resolve *)

\* dict.get(key, default)
DictGet(d, key, default) == IF key \in DOMAIN d THEN d[key] ELSE default

\* The transformer tuple with its two entries exchanged.
Transformers_raydium_first == <<"RaydiumResolver", "PumpFunResolver">>

\* The tuple resolve iterates over.
Transformers == <<"PumpFunResolver", "RaydiumResolver">>

\* transformer.resolve(instructions)
TransformerResolve(transformer, instructions) ==
    IF transformer = "PumpFunResolver" THEN PumpFunResolver_resolve(instructions)
    ELSE RaydiumResolver_resolve(instructions)

\* instructions = parsed_data.get("instructions", [])
ResolveEnter ==
    /\ r_pc = "idle"
    /\ r_instructions' = DictGet(parsed_data, "instructions", <<>>)
    /\ r_k' = 1
    /\ r_pc' = "loop"
    /\ UNCHANGED <<tx, correlated, sharedVars, callerVars, parseVars, accountVars, parsed_data, attempts, resolved>>

\* A variant of the loop body that keeps going after a match, so that the
\* last matching rule wins.
ResolveTry_last_match_wins ==
    /\ r_pc = "loop"
    /\ r_k <= Len(Transformers)
    /\ LET result == TransformerResolve(Transformers[r_k], r_instructions) IN
        /\ attempts' = Append(attempts, [transformer |-> Transformers[r_k], result |-> result])
        /\ resolved' = IF result # None THEN result ELSE resolved
        /\ r_k' = r_k + 1
        /\ r_pc' = IF r_k = Len(Transformers) /\ resolved' # None THEN "done" ELSE "loop"
    /\ UNCHANGED <<tx, correlated, sharedVars, callerVars, parseVars, accountVars, parsed_data, r_instructions>>

\* One iteration of the for loop: call the transformer, return its result
\* unless it is None.
ResolveTry ==
    /\ r_pc = "loop"
    /\ r_k <= Len(Transformers)
    /\ LET result == TransformerResolve(Transformers[r_k], r_instructions) IN
        /\ attempts' = Append(attempts, [transformer |-> Transformers[r_k], result |-> result])
        /\ IF result # None
           THEN resolved' = result /\ r_pc' = "done" /\ r_k' = r_k
           ELSE resolved' = resolved /\ r_pc' = "loop" /\ r_k' = r_k + 1
    /\ UNCHANGED <<tx, correlated, sharedVars, callerVars, parseVars, accountVars, parsed_data, r_instructions>>

\* The loop is exhausted: return UnknownResolver.resolve(instructions).
ResolveFallback ==
    /\ r_pc = "loop"
    /\ r_k > Len(Transformers)
    /\ LET result == UnknownResolver_resolve(r_instructions) IN
        /\ attempts' = Append(attempts, [transformer |-> "UnknownResolver", result |-> result])
        /\ resolved' = result
    /\ r_pc' = "done"
    /\ UNCHANGED <<tx, correlated, sharedVars, callerVars, parseVars, accountVars, parsed_data, r_instructions, r_k>>

-----------------------------------------------------------------------------
(* The resolver on its own: resolve applied to lists of parsed instructions *)

MaxList == 4

\* parser.parsers.pumpfun.Swap, with the fields the PumpFun rule reads.
PumpFunSwap(mint, user, sol_amount, token_amount, is_buy) ==
    [cls |-> "pumpfun.Swap", program_id |-> PumpFunId, program_name |-> "PumpFun",
     instruction_name |-> "Swap", mint |-> mint, user |-> user,
     sol_amount |-> sol_amount, token_amount |-> token_amount, is_buy |-> is_buy]

\* parser.parsers.raydiumAMM.Swap, with the fields the Raydium rule reads.
RaydiumSwap(who, from_token, from_amount, from_decimals, to_token, to_amount, to_decimals, minimum_amount_out) ==
    [cls |-> "raydiumAMM.Swap", program_id |-> RaydiumAMMId, program_name |-> "RaydiumAMM",
     instruction_name |-> "Swap", who |-> who,
     from_token |-> from_token, from_token_amount |-> from_amount,
     from_token_decimals |-> from_decimals,
     to_token |-> to_token, to_token_amount |-> to_amount,
     to_token_decimals |-> to_decimals,
     minimum_amount_out |-> minimum_amount_out]

\* parser.parsers.unknown.Unknown
UnknownRecord(program_id, instruction_index) ==
    [cls |-> "unknown.Unknown", program_id |-> program_id, program_name |-> "Unknown",
     instruction_name |-> "Unknown", instruction_index |-> instruction_index]

\* Records of every kind, a few of each, for lists of several instructions.
ListSamples ==
    {PumpFunSwap("MintA", "U1", 2000000000, 1234, TRUE),
     PumpFunSwap("MintB", "U2", 500000000, 77, FALSE),
     RaydiumSwap("U1", WSOL_MINT, 1500, 9, "MintA", 2500000, 6, 2000000),
     RaydiumSwap("U2", "MintA", 42, 6, "MintB", 43, 0, 40),
     UnknownRecord("Vote111111111111111111111111111111111111111", 0),
     [cls |-> "computeBudget.SetComputeUnitLimit", program_id |-> ComputeBudgetId,
      program_name |-> "ComputeBudget", instruction_name |-> "SetComputeUnitLimit",
      compute_unit_limit |-> 200000]}

\* Every PumpFun Swap over small field sets.
AllPumpFunSwaps ==
    {PumpFunSwap(m, u, s, t, b) :
        m \in {"MintA", WSOL_MINT}, u \in {"U1", "U2"},
        s \in {0, 1, 2000000000}, t \in {0, 1234}, b \in BOOLEAN}

\* Every Raydium Swap over small field sets.
AllRaydiumSwaps ==
    {RaydiumSwap("U1", ft, fa, fd, tt, ta, td, mo) :
        ft \in {WSOL_MINT, SOL_MINT, "MintA"}, fa \in {0, 1500}, fd \in {0, 6},
        tt \in {WSOL_MINT, SOL_MINT, "MintB"}, ta \in {1, 2000000000}, td \in {6, 9},
        mo \in {0, 999}}

\* The lists resolve is applied to: every list of up to MaxList sample
\* records, and every single swap alone, before or after an Unknown record.
ResolverInputs ==
    SeqsOf(ListSamples, 0, MaxList)
    \cup {<<x>> : x \in AllPumpFunSwaps \cup AllRaydiumSwaps}
    \cup {<<UnknownRecord("Vote111111111111111111111111111111111111111", 0), x>> :
            x \in AllPumpFunSwaps \cup AllRaydiumSwaps}
    \cup {<<x, UnknownRecord("Vote111111111111111111111111111111111111111", 1)>> :
            x \in AllPumpFunSwaps \cup AllRaydiumSwaps}

NextResolve ==
    \/ ResolveEnter
    \/ ResolveTry
    \/ ResolveFallback

-----------------------------------------------------------------------------
(* Properties of the resolver *)

NPumpFunSwaps == CountWhere(r_instructions, "pumpfun.Swap")
NRaydiumSwaps == CountWhere(r_instructions, "raydiumAMM.Swap")

\* The only record of class c in the list resolve works on.
TheOnly(c) ==
    r_instructions[CHOOSE i \in 1..Len(r_instructions) : r_instructions[i].cls = c]

\* Divisor of a leg as the specification states it: 10^9 for a SOL mint, else 10^decimals.
LegDivisor(mint, decimals) ==
    IF mint = "So11111111111111111111111111111111111111112"
        \/ mint = "11111111111111111111111111111111"
    THEN 1000000000
    ELSE CASE decimals = 0 -> 1
           [] decimals = 6 -> 1000000
           [] decimals = 9 -> 1000000000

C4_FirstMatchingRuleWins ==
    r_pc = "done" =>
        LET p == PumpFunResolver_resolve(r_instructions)
            r == RaydiumResolver_resolve(r_instructions)
        IN
        /\ attempts[1].transformer = "PumpFunResolver"
        /\ Len(attempts) >= 2 =>
            attempts[1].result = None /\ attempts[2].transformer = "RaydiumResolver"
        /\ Len(attempts) >= 3 =>
            attempts[2].result = None /\ attempts[3].transformer = "UnknownResolver"
        /\ resolved = attempts[Len(attempts)].result
        /\ resolved = (IF p # None THEN p ELSE IF r # None THEN r ELSE [cls |-> "Unknown"])

\* The second rule produced the result after the first one declined.
C4_Witness ==
    /\ r_pc = "done"
    /\ Len(attempts) = 2
    /\ attempts[1].result = None
    /\ resolved.cls = "Raydium"

\* C5: a rule matches exactly when the list holds one record of its kind;
\* with none, or with two or more, it returns None.
C5_ResolverExclusivity ==
    \A k \in 1..Len(attempts) :
        /\ attempts[k].transformer = "PumpFunResolver" =>
            (attempts[k].result # None <=> NPumpFunSwaps = 1)
        /\ attempts[k].transformer = "RaydiumResolver" =>
            (attempts[k].result # None <=> NRaydiumSwaps = 1)

\* Both rules were consulted on a list with two swaps of each kind.
C5_Witness ==
    /\ Len(attempts) = 3
    /\ NPumpFunSwaps = 2 /\ NRaydiumSwaps = 2
    /\ attempts[1].result = None /\ attempts[2].result = None

\* C6 as stated: when the list holds exactly one launch-program Swap and
\* exactly one AMM Swap (both rules match), resolve returns Unknown.
C6_AmbiguityIsUnknown ==
    (r_pc = "done" /\ NPumpFunSwaps = 1 /\ NRaydiumSwaps = 1) =>
        resolved = [cls |-> "Unknown"]

\* C6 as amended: when both rules match, resolve returns the PumpFun rule's
\* result and never consults the Raydium rule; it returns Unknown when no
\* rule matches.
C6_AmbiguityTakesFirstRule ==
    r_pc = "done" =>
        /\ (NPumpFunSwaps = 1 /\ NRaydiumSwaps = 1) =>
            /\ resolved.cls = "PumpFun"
            /\ resolved.who = TheOnly("pumpfun.Swap").user
            /\ Len(attempts) = 1
        /\ (NPumpFunSwaps # 1 /\ NRaydiumSwaps # 1) => resolved = [cls |-> "Unknown"]

\* resolve has returned for a list with one swap of each kind and two other records.
C6_Witness ==
    /\ r_pc = "done"
    /\ NPumpFunSwaps = 1 /\ NRaydiumSwaps = 1
    /\ Len(r_instructions) = 4
    /\ resolved.cls = "PumpFun"

\* C7: the PumpFun rule, given exactly one Swap with mint M, user U,
\* sol_amount S and token_amount T, returns who = U and, when is_buy holds,
\* type buy, WSOL -> M, from_amount = S / 10^9, to_amount = T undivided;
\* otherwise type sell, M -> WSOL, from_amount = T undivided, to_amount =
\* S / 10^9.
C7_PumpFunRuleResult ==
    \A k \in 1..Len(attempts) :
        (attempts[k].transformer = "PumpFunResolver" /\ NPumpFunSwaps = 1) =>
            LET s == TheOnly("pumpfun.Swap")
                a == attempts[k].result
            IN
            /\ a.cls = "PumpFun"
            /\ a.who = s.user
            /\ IF s.is_buy
               THEN /\ a.type = "buy"
                    /\ a.from_token = "So11111111111111111111111111111111111111112"
                    /\ a.from_amount = [num |-> s.sol_amount, den |-> 1000000000]
                    /\ a.to_token = s.mint
                    /\ a.to_amount = [num |-> s.token_amount, den |-> 1]
               ELSE /\ a.type = "sell"
                    /\ a.from_token = s.mint
                    /\ a.from_amount = [num |-> s.token_amount, den |-> 1]
                    /\ a.to_token = "So11111111111111111111111111111111111111112"
                    /\ a.to_amount = [num |-> s.sol_amount, den |-> 1000000000]

\* The buy of 2_000_000_000 lamports for 1234 tokens of MintA by U1 has
\* been resolved to 2 SOL -> 1234 MintA.
C7_Witness ==
    /\ r_pc = "done"
    /\ r_instructions = <<PumpFunSwap("MintA", "U1", 2000000000, 1234, TRUE)>>
    /\ resolved = [cls |-> "PumpFun", type |-> "buy", who |-> "U1",
                   from_token |-> WSOL_MINT,
                   from_amount |-> [num |-> 2000000000, den |-> 1000000000],
                   to_token |-> "MintA",
                   to_amount |-> [num |-> 1234, den |-> 1]]

\* C8: the Raydium rule, given exactly one Swap, returns type buy when the
\* from_token is the wrapped or native SOL mint, sell when the to_token is
\* one and the from_token is not, swap otherwise, and copies from_token,
\* to_token and who.
C8_RaydiumClassification ==
    \A k \in 1..Len(attempts) :
        (attempts[k].transformer = "RaydiumResolver" /\ NRaydiumSwaps = 1) =>
            LET s == TheOnly("raydiumAMM.Swap")
                a == attempts[k].result
                sol == {"So11111111111111111111111111111111111111112",
                        "11111111111111111111111111111111"}
            IN
            /\ a.cls = "Raydium"
            /\ s.from_token \in sol => a.type = "buy"
            /\ (s.to_token \in sol /\ s.from_token \notin sol) => a.type = "sell"
            /\ (s.to_token \notin sol /\ s.from_token \notin sol) => a.type = "swap"
            /\ a.from_token = s.from_token
            /\ a.to_token = s.to_token
            /\ a.who = s.who

\* A swap with a SOL mint on both sides has been classified.
C8_Witness ==
    /\ r_pc = "done"
    /\ resolved.cls = "Raydium"
    /\ resolved.from_token = WSOL_MINT /\ resolved.to_token = SOL_MINT
    /\ resolved.type = "buy"

\* C9: the Raydium rule divides each leg's raw amount by 10^9 when the
\* leg's mint is wrapped or native SOL and by 10^(the leg's declared
\* decimals) otherwise, and divides minimum_amount_out by the to-side
\* divisor.
C9_RaydiumDecimals ==
    \A k \in 1..Len(attempts) :
        (attempts[k].transformer = "RaydiumResolver" /\ NRaydiumSwaps = 1) =>
            LET s == TheOnly("raydiumAMM.Swap")
                a == attempts[k].result
            IN
            /\ a.from_amount = [num |-> s.from_token_amount,
                                den |-> LegDivisor(s.from_token, s.from_token_decimals)]
            /\ a.to_amount = [num |-> s.to_token_amount,
                              den |-> LegDivisor(s.to_token, s.to_token_decimals)]
            /\ a.minimum_amount_out = [num |-> s.minimum_amount_out,
                                       den |-> LegDivisor(s.to_token, s.to_token_decimals)]

\* A sell of a 0-decimals token for wrapped SOL declared with 6 decimals:
\* the SOL leg and minimum_amount_out are divided by 10^9 all the same.
C9_Witness ==
    /\ r_pc = "done"
    /\ resolved.cls = "Raydium"
    /\ TheOnly("raydiumAMM.Swap").to_token_decimals = 6
    /\ TheOnly("raydiumAMM.Swap").from_token_decimals = 0
    /\ resolved.from_token = "MintA" /\ resolved.to_token = WSOL_MINT
    /\ resolved.from_amount = [num |-> 1500, den |-> 1]
    /\ resolved.minimum_amount_out = [num |-> 999, den |-> 1000000000]

-----------------------------------------------------------------------------
(* parser: bytes *)

RECURSIVE from_bytes_little(_)
\* int.from_bytes(b, byteorder="little", signed=False)
from_bytes_little(b) ==
    IF b = <<>> THEN 0 ELSE Head(b) + 256 * from_bytes_little(Tail(b))

\* b[lo:hi] for 0 <= lo <= hi: the slice is cut at the end of b.
Slice(b, lo, hi) ==
    IF lo >= Len(b) THEN <<>>
    ELSE SubSeq(b, lo + 1, IF hi < Len(b) THEN hi ELSE Len(b))

\* base58.decode(instr.data or "")
DecodedData(instr) == IF instr.data = None THEN <<>> ELSE instr.data.str

\* tx.all_accounts[accounts[k]]
AccountAt(t, accounts, k) ==
    LET i == PyIndex(accounts, k) IN
    IF ~i.ok THEN i ELSE PyIndex(all_accounts(t), i.val)

-----------------------------------------------------------------------------
(* parser: the decoders *)

SystemProgramParser ==
    [cls |-> "_SystemProgramParser", program_id |-> SystemProgramId,
     program_name |-> "System Program"]
ComputeBudgetParser ==
    [cls |-> "_ComputeBudgetParser", program_id |-> ComputeBudgetId,
     program_name |-> "ComputeBudget"]
TokenProgramParser ==
    [cls |-> "_TokenProgramParser", program_id |-> TokenProgramId,
     program_name |-> "TokenProgram"]
PumpFunParser ==
    [cls |-> "_PumpFunParser", program_id |-> PumpFunId, program_name |-> "PumpFun"]
RaydiumAMMParser ==
    [cls |-> "_RaydiumAMMParser", program_id |-> RaydiumAMMId,
     program_name |-> "RaydiumAMM"]

\* UnknownParser.__init__
UnknownParser(program_id) ==
    [cls |-> "UnknownParser", program_id |-> program_id, program_name |-> "Unknown"]

\* The keys of id_to_handler.
RegisteredIds ==
    {SystemProgramId, ComputeBudgetId, TokenProgramId, RaydiumAMMId, PumpFunId}

\* id_to_handler.get(program_id, UnknownParser(program_id))
Handler(program_id) ==
    CASE program_id = SystemProgramId -> SystemProgramParser
      [] program_id = ComputeBudgetId -> ComputeBudgetParser
      [] program_id = TokenProgramId -> TokenProgramParser
      [] program_id = RaydiumAMMId -> RaydiumAMMParser
      [] program_id = PumpFunId -> PumpFunParser
      [] OTHER -> UnknownParser(program_id)

\* A variant of the Unknown decoder's discriminator that reads the first byte
\* before answering True, and so raises IndexError on empty data.
UnknownParser_desc_first_byte(d) ==
    IF PyIndex(d, 0).ok THEN Ok(TRUE) ELSE PyIndex(d, 0)

\* UnknownParser: self.desc = lambda d: True
UnknownParser_desc(d) == Ok(TRUE)

\* _PumpFunParser.__init__: calculate_discriminator(x), the first 8 bytes of
\* the SHA-256 digest of x, for the three strings it is applied to.
calculate_discriminator(x) ==
    CASE x = "global:buy" -> <<102, 6, 61, 18, 1, 218, 235, 234>>
      [] x = "global:sell" -> <<51, 230, 133, 164, 1, 127, 131, 173>>
      [] x = "global:create" -> <<24, 30, 200, 40, 5, 28, 7, 119>>

\* self.desc of each decoder, applied to the decoded data.
desc(program, d) ==
    CASE program.cls = "UnknownParser" -> UnknownParser_desc(d)
      [] program.cls = "_SystemProgramParser" -> Ok(from_bytes_little(Slice(d, 0, 4)))
      [] program.cls = "_ComputeBudgetParser" -> PyIndex(d, 0)
      [] program.cls = "_TokenProgramParser" -> PyIndex(d, 0)
      [] program.cls = "_PumpFunParser" -> Ok(Slice(d, 0, 8))

SystemProcessors ==
    <<"process_CreateAccount", "process_Assign", "process_Transfer",
      "process_CreateAccountWithSeed", "process_AdvanceNonceAccount",
      "process_WithdrawNonceAccount", "process_AuthorizeNonceAccount",
      "process_Allocate", "process_AllocateWithSeed", "process_TransferWithSeed">>

TokenProcessors ==
    <<"process_InitializeMint", "process_InitializeAccount", "process_InitializeMultisig",
      "process_Transfer", "process_Approve", "process_Revoke", "process_SetAuthority",
      "process_MintTo", "process_Burn", "process_CloseAccount", "process_FreezeAccount",
      "process_ThawAccount", "process_TransferChecked", "process_ApproveChecked",
      "process_MintToChecked", "process_BurnChecked">>

\* self.desc_map of each decoder: the keyed entries and the "default" entry
\* (NoneStr when the map has none).
desc_map(program) ==
    CASE program.cls = "UnknownParser" ->
            [table |-> [k \in {TRUE} |-> "process_Unknown"], default |-> NoneStr]
      [] program.cls = "_SystemProgramParser" ->
            [table |-> [k \in 0..9 |-> SystemProcessors[k + 1]], default |-> NoneStr]
      [] program.cls = "_ComputeBudgetParser" ->
            [table |-> [k \in {2, 3} |-> IF k = 2 THEN "process_SetComputeUnitLimit"
                                         ELSE "process_SetComputeUnitPrice"],
             default |-> NoneStr]
      [] program.cls = "_TokenProgramParser" ->
            [table |-> [k \in 0..15 |-> TokenProcessors[k + 1]],
             default |-> "process_Unknown"]
      [] program.cls = "_PumpFunParser" ->
            [table |->
                [k \in {calculate_discriminator("global:buy"),
                        calculate_discriminator("global:sell"),
                        calculate_discriminator("global:create")} |->
                    CASE k = calculate_discriminator("global:buy") -> "parse_Buy"
                      [] k = calculate_discriminator("global:sell") -> "parse_Sell"
                      [] k = calculate_discriminator("global:create") -> "parse_Create"],
             default |-> NoneStr]

\* UnknownParser.process_Unknown
UnknownParser_process_Unknown(program, t, instruction_index, decoded_data) ==
    Ok(UnknownRecord(program.program_id, instruction_index))

\* TransferData.decode: 4 bytes of padding, then lamports as a u64. The
\* qborsh reader is taken to raise when the data ends before the layout does.
TransferData_decode(d) ==
    IF Len(d) < 12 THEN Raise("DecodeError")
    ELSE Ok([lamports |-> from_bytes_little(Slice(d, 4, 12))])

\* A variant of the System Transfer decoder that takes the source from the
\* second account and the destination from the first.
SystemProgram_process_Transfer_swapped(t, instruction_index, decoded_data) ==
    LET instr == t.message.instructions[instruction_index + 1]
        data == TransferData_decode(decoded_data)
        accounts == instr.accounts
        from_account == IF Len(accounts) > 1 THEN AccountAt(t, accounts, 1) ELSE Ok(NoneStr)
        to_account == IF accounts # <<>> THEN AccountAt(t, accounts, 0) ELSE Ok(NoneStr)
    IN
    IF ~data.ok THEN data
    ELSE IF ~from_account.ok THEN from_account
    ELSE IF ~to_account.ok THEN to_account
    ELSE Ok([cls |-> "systemProgram.Transfer",
             program_id |-> SystemProgramId,
             program_name |-> "System Program",
             instruction_name |-> "Transfer",
             from_account |-> from_account.val,
             to_account |-> to_account.val,
             lamports |-> data.val.lamports])

\* _SystemProgramParser.process_Transfer
SystemProgram_process_Transfer(t, instruction_index, decoded_data) ==
    LET instr == t.message.instructions[instruction_index + 1]
        data == TransferData_decode(decoded_data)
        accounts == instr.accounts
        from_account == IF accounts # <<>> THEN AccountAt(t, accounts, 0) ELSE Ok(NoneStr)
        to_account == IF Len(accounts) > 1 THEN AccountAt(t, accounts, 1) ELSE Ok(NoneStr)
    IN
    IF ~data.ok THEN data
    ELSE IF ~from_account.ok THEN from_account
    ELSE IF ~to_account.ok THEN to_account
    ELSE Ok([cls |-> "systemProgram.Transfer",
             program_id |-> SystemProgramId,
             program_name |-> "System Program",
             instruction_name |-> "Transfer",
             from_account |-> from_account.val,
             to_account |-> to_account.val,
             lamports |-> data.val.lamports])

\* _ComputeBudgetParser.process_SetComputeUnitLimit
ComputeBudget_process_SetComputeUnitLimit(t, instruction_index, decoded_data) ==
    Ok([cls |-> "computeBudget.SetComputeUnitLimit",
        program_id |-> ComputeBudgetId,
        program_name |-> "ComputeBudget",
        instruction_name |-> "SetComputeUnitLimit",
        compute_unit_limit |-> from_bytes_little(Slice(decoded_data, 1, 5))])

\* _ComputeBudgetParser.process_SetComputeUnitPrice
ComputeBudget_process_SetComputeUnitPrice(t, instruction_index, decoded_data) ==
    Ok([cls |-> "computeBudget.SetComputeUnitPrice",
        program_id |-> ComputeBudgetId,
        program_name |-> "ComputeBudget",
        instruction_name |-> "SetComputeUnitPrice",
        micro_lamports |-> from_bytes_little(Slice(decoded_data, 1, 9))])

\* A variant of the Token Transfer decoder that reads the amount from offset
\* 0, the discriminator byte included.
TokenProgram_process_Transfer_amount_at_0(t, instruction_index, decoded_data) ==
    LET accounts == t.message.instructions[instruction_index + 1].accounts
        amount == from_bytes_little(Slice(decoded_data, 0, 8))
        from_account == AccountAt(t, accounts, 0)
        to == AccountAt(t, accounts, 1)
    IN
    IF ~from_account.ok THEN from_account
    ELSE IF ~to.ok THEN to
    ELSE Ok([cls |-> "tokenProgram.Transfer",
             program_id |-> TokenProgramId,
             program_name |-> "TokenProgram",
             instruction_name |-> "Transfer",
             from_account |-> from_account.val,
             to |-> to.val,
             amount |-> amount])

\* _TokenProgramParser.process_Transfer (custom_accounts is None under route)
TokenProgram_process_Transfer(t, instruction_index, decoded_data) ==
    LET accounts == t.message.instructions[instruction_index + 1].accounts
        amount == from_bytes_little(Slice(decoded_data, 1, 9))
        from_account == AccountAt(t, accounts, 0)
        to == AccountAt(t, accounts, 1)
    IN
    IF ~from_account.ok THEN from_account
    ELSE IF ~to.ok THEN to
    ELSE Ok([cls |-> "tokenProgram.Transfer",
             program_id |-> TokenProgramId,
             program_name |-> "TokenProgram",
             instruction_name |-> "Transfer",
             from_account |-> from_account.val,
             to |-> to.val,
             amount |-> amount])

\* _TokenProgramParser.process_TransferChecked (custom_accounts is None under route)
TokenProgram_process_TransferChecked(t, instruction_index, decoded_data) ==
    LET accounts == t.message.instructions[instruction_index + 1].accounts
        amount == from_bytes_little(Slice(decoded_data, 1, 9))
        decimals == from_bytes_little(Slice(decoded_data, 9, 10))
        from_account == AccountAt(t, accounts, 0)
        mint == AccountAt(t, accounts, 1)
        to == AccountAt(t, accounts, 2)
    IN
    IF ~from_account.ok THEN from_account
    ELSE IF ~mint.ok THEN mint
    ELSE IF ~to.ok THEN to
    ELSE Ok([cls |-> "tokenProgram.TransferChecked",
             program_id |-> TokenProgramId,
             program_name |-> "TokenProgram",
             instruction_name |-> "TransferChecked",
             from_account |-> from_account.val,
             mint |-> mint.val,
             to |-> to.val,
             amount |-> amount,
             decimals |-> decimals])

\* A variant of the Token Unknown decoder that reads the first account, as
\* the decoders of the known variants do.
TokenProgram_process_Unknown_reads_account(t, instruction_index, decoded_data) ==
    LET accounts == t.message.instructions[instruction_index + 1].accounts
        account == AccountAt(t, accounts, 0)
    IN
    IF ~account.ok THEN account
    ELSE Ok([cls |-> "tokenProgram.Unknown",
             program_id |-> TokenProgramId,
             program_name |-> "TokenProgram",
             instruction_name |-> "Unknown"])

\* _TokenProgramParser.process_Unknown
TokenProgram_process_Unknown(t, instruction_index, decoded_data) ==
    Ok([cls |-> "tokenProgram.Unknown",
        program_id |-> TokenProgramId,
        program_name |-> "TokenProgram",
        instruction_name |-> "Unknown"])

\* The 32 bytes of the addresses that occur in event payloads, with the text
\* str() gives for each: the bytes of WSOL_MINT are those its base58 text
\* encodes, the other addresses stand for arbitrary keys.
PubKeyBytes(address) ==
    CASE address = WSOL_MINT ->
            <<6, 155, 136, 87, 254, 171, 129, 132, 251, 104, 127, 99, 70, 24, 192, 53,
              218, 196, 57, 220, 26, 235, 59, 85, 152, 160, 240, 0, 0, 0, 0, 1>>
      [] address = "MintA" -> [k \in 1..32 |-> 1]
      [] address = "MintB" -> [k \in 1..32 |-> 2]
      [] address = "Bob" -> [k \in 1..32 |-> 3]
      [] address = "Carol" -> [k \in 1..32 |-> 4]

\* str(qborsh.PubKey): the base58 text of 32 bytes.
PubKey_str(b) ==
    CHOOSE address \in {WSOL_MINT, "MintA", "MintB", "Bob", "Carol"} :
        PubKeyBytes(address) = b

\* SwapData.decode: mint (32 bytes), sol_amount and token_amount (u64 each),
\* is_buy (1 byte), user (32 bytes), then timestamp and the two reserves,
\* which no decoder reads and which are not carried. The qborsh reader is
\* taken to raise when the data ends before the layout does.
SwapData_decode(b) ==
    IF Len(b) < 105 THEN Raise("DecodeError")
    ELSE Ok([mint |-> PubKey_str(SubSeq(b, 1, 32)),
             sol_amount |-> from_bytes_little(SubSeq(b, 33, 40)),
             token_amount |-> from_bytes_little(SubSeq(b, 41, 48)),
             is_buy |-> b[49] # 0,
             user |-> PubKey_str(SubSeq(b, 50, 81))])

RECURSIVE PumpFun_parse_swap_gather_all_groups(_, _)
\* A variant of the first loop that takes the instructions of every group,
\* whatever its "index".
PumpFun_parse_swap_gather_all_groups(groups, instruction_index) ==
    IF groups = <<>> THEN <<>>
    ELSE Head(groups).instructions
            \o PumpFun_parse_swap_gather_all_groups(Tail(groups), instruction_index)

RECURSIVE PumpFun_parse_swap_gather(_, _)
\* _parse_swap, first loop: inner_instrs, the instructions of the groups whose
\* "index" is instruction_index and of the groups without an "index".
PumpFun_parse_swap_gather(groups, instruction_index) ==
    IF groups = <<>> THEN <<>>
    ELSE LET group == Head(groups)
             rest == PumpFun_parse_swap_gather(Tail(groups), instruction_index)
         IN
         IF "index" \in DOMAIN group
         THEN IF group.index = instruction_index
              THEN group.instructions \o rest
              ELSE rest
         ELSE group.instructions \o rest

RECURSIVE PumpFun_parse_swap_decode(_, _, _)
\* _parse_swap, second loop: result_list. An inner instruction's "data" is
\* kept as the bytes its base58 text encodes; a dict without "data" has none.
PumpFun_parse_swap_decode(t, inner_instrs, top_prog_id) ==
    IF inner_instrs = <<>> THEN Ok(<<>>)
    ELSE LET in_instr == Head(inner_instrs)
             sub_prog_id == PyIndex(all_accounts(t), in_instr.programIdIndex)
             raw_data == IF "data" \in DOMAIN in_instr THEN in_instr.data ELSE <<>>
             parsed_obj == SwapData_decode(Slice(raw_data, 16, Len(raw_data)))
             rest == PumpFun_parse_swap_decode(t, Tail(inner_instrs), top_prog_id)
         IN
         IF ~sub_prog_id.ok THEN sub_prog_id
         ELSE IF sub_prog_id.val # top_prog_id THEN rest
         ELSE IF Len(raw_data) < 16 THEN rest
         ELSE IF ~parsed_obj.ok THEN parsed_obj
         ELSE IF ~rest.ok THEN rest
         ELSE Ok(<<parsed_obj.val>> \o rest.val)

\* _PumpFunParser._parse_swap
PumpFun_parse_swap(t, instruction_index) ==
    LET top_instr == t.message.instructions[instruction_index + 1]
        top_prog_id == PyIndex(all_accounts(t), top_instr.programIdIndex)
    IN
    IF ~top_prog_id.ok THEN top_prog_id
    ELSE PumpFun_parse_swap_decode(
             t, PumpFun_parse_swap_gather(t.meta.innerInstructions, instruction_index),
             top_prog_id.val)

SOL_DECIMALS == 9

\* A variant of _get_token_decimals that searches the post-balances before
\* the pre-balances.
PumpFun_get_token_decimals_post_first(t, mint) ==
    LET balances == t.meta.postTokenBalances \o t.meta.preTokenBalances
        found == {k \in 1..Len(balances) : balances[k].mint = mint}
    IN
    IF mint = WSOL_MINT THEN Ok(SOL_DECIMALS)
    ELSE IF found = {} THEN Raise("ValueError")
    ELSE Ok(balances[CHOOSE k \in found : \A j \in found : k <= j].uiTokenAmount.decimals)

\* _PumpFunParser._get_token_decimals
PumpFun_get_token_decimals(t, mint) ==
    LET balances == t.meta.preTokenBalances \o t.meta.postTokenBalances
        found == {k \in 1..Len(balances) : balances[k].mint = mint}
    IN
    IF mint = WSOL_MINT THEN Ok(SOL_DECIMALS)
    ELSE IF found = {} THEN Raise("ValueError")
    ELSE Ok(balances[CHOOSE k \in found : \A j \in found : k <= j].uiTokenAmount.decimals)

\* CreateData.decode: name, symbol and uri, each a u32 length and that many
\* bytes, kept as bytes. The qborsh reader is taken to raise when the data
\* ends before the layout does.
CreateData_decode(raw) ==
    LET n1 == from_bytes_little(Slice(raw, 0, 4))
        o2 == 4 + n1
        n2 == from_bytes_little(Slice(raw, o2, o2 + 4))
        o3 == o2 + 4 + n2
        n3 == from_bytes_little(Slice(raw, o3, o3 + 4))
    IN
    IF Len(raw) < 4 \/ Len(raw) < o2 + 4 THEN Raise("DecodeError")
    ELSE IF Len(raw) < o3 + 4 THEN Raise("DecodeError")
    ELSE IF Len(raw) < o3 + 4 + n3 THEN Raise("DecodeError")
    ELSE Ok([name |-> Slice(raw, 4, o2),
             symbol |-> Slice(raw, o2 + 4, o3),
             uri |-> Slice(raw, o3 + 4, o3 + 4 + n3)])

\* tx.all_accounts[instr.accounts[k]] if len(instr.accounts) > k else None
AccountAtOrNone(t, accounts, k) ==
    IF Len(accounts) > k THEN AccountAt(t, accounts, k) ELSE Ok(NoneStr)

\* A variant of parse_Create that reads the creator at position 7 without
\* looking at the length of the account list.
PumpFun_parse_Create_requires_who(t, instruction_index, decoded_data) ==
    LET create_data == CreateData_decode(Slice(decoded_data, 8, Len(decoded_data)))
        accounts == t.message.instructions[instruction_index + 1].accounts
        fields == [k \in 0..7 |->
                    IF k = 7 THEN AccountAt(t, accounts, 7)
                    ELSE AccountAtOrNone(t, accounts, k)]
    IN
    IF ~create_data.ok THEN create_data
    ELSE IF \E k \in {7, 0, 1, 2, 3, 5, 6} : ~fields[k].ok THEN Raise("IndexError")
    ELSE Ok([cls |-> "pumpfun.Create",
             program_id |-> PumpFunId,
             program_name |-> "PumpFun",
             instruction_name |-> "Create",
             who |-> fields[7].val,
             mint |-> fields[0].val,
             mint_authority |-> fields[1].val,
             bonding_curve |-> fields[2].val,
             associated_bonding_curve |-> fields[3].val,
             mpl_token_metadata |-> fields[5].val,
             metadata |-> fields[6].val,
             name |-> create_data.val.name,
             symbol |-> create_data.val.symbol,
             uri |-> create_data.val.uri])

\* _PumpFunParser.parse_Create: the positions read are 7, 0, 1, 2, 3, 5, 6,
\* and each of them can only raise IndexError.
PumpFun_parse_Create(t, instruction_index, decoded_data) ==
    LET create_data == CreateData_decode(Slice(decoded_data, 8, Len(decoded_data)))
        accounts == t.message.instructions[instruction_index + 1].accounts
        fields == [k \in 0..7 |-> AccountAtOrNone(t, accounts, k)]
    IN
    IF ~create_data.ok THEN create_data
    ELSE IF \E k \in {7, 0, 1, 2, 3, 5, 6} : ~fields[k].ok THEN Raise("IndexError")
    ELSE Ok([cls |-> "pumpfun.Create",
             program_id |-> PumpFunId,
             program_name |-> "PumpFun",
             instruction_name |-> "Create",
             who |-> fields[7].val,
             mint |-> fields[0].val,
             mint_authority |-> fields[1].val,
             bonding_curve |-> fields[2].val,
             associated_bonding_curve |-> fields[3].val,
             mpl_token_metadata |-> fields[5].val,
             metadata |-> fields[6].val,
             name |-> create_data.val.name,
             symbol |-> create_data.val.symbol,
             uri |-> create_data.val.uri])

\* A variant of parse_Buy that, without an inner event, returns a record
\* with no buyer and zero amounts instead of failing.
PumpFun_parse_Buy_default_amounts(t, instruction_index, decoded_data) ==
    LET swap_list == PumpFun_parse_swap(t, instruction_index)
        data == IF swap_list.ok /\ swap_list.val # <<>> THEN swap_list.val[1]
                ELSE [mint |-> WSOL_MINT, user |-> NoneStr,
                      sol_amount |-> 0, token_amount |-> 0]
        to_decimals == PumpFun_get_token_decimals(t, data.mint)
    IN
    IF ~swap_list.ok THEN swap_list
    ELSE IF ~to_decimals.ok THEN to_decimals
    ELSE Ok([cls |-> "pumpfun.Buy",
             program_id |-> PumpFunId,
             program_name |-> "PumpFun",
             instruction_name |-> "Buy",
             who |-> data.user,
             from_token |-> WSOL_MINT,
             from_token_decimals |-> SOL_DECIMALS,
             to_token |-> data.mint,
             to_token_decimals |-> to_decimals.val,
             from_token_amount |-> data.sol_amount,
             to_token_amount |-> data.token_amount])

\* A variant of parse_Buy whose record carries the transaction's block time.
PumpFun_parse_Buy_stamps_block_time(t, instruction_index, decoded_data) ==
    LET swap_list == PumpFun_parse_swap(t, instruction_index)
        data == PyIndex(swap_list.val, 0)
        to_decimals == PumpFun_get_token_decimals(t, data.val.mint)
    IN
    IF ~swap_list.ok THEN swap_list
    ELSE IF ~data.ok THEN data
    ELSE IF ~to_decimals.ok THEN to_decimals
    ELSE Ok([cls |-> "pumpfun.Buy",
             program_id |-> PumpFunId,
             program_name |-> "PumpFun",
             instruction_name |-> "Buy",
             who |-> data.val.user,
             from_token |-> WSOL_MINT,
             from_token_decimals |-> SOL_DECIMALS,
             to_token |-> data.val.mint,
             to_token_decimals |-> to_decimals.val,
             from_token_amount |-> data.val.sol_amount,
             to_token_amount |-> data.val.token_amount,
             block_time |-> t.blockTime])

\* A variant of parse_Buy that reads the token amount from the outer
\* instruction's data, after the discriminator.
PumpFun_parse_Buy_outer_amount(t, instruction_index, decoded_data) ==
    LET swap_list == PumpFun_parse_swap(t, instruction_index)
        data == PyIndex(swap_list.val, 0)
        to_decimals == PumpFun_get_token_decimals(t, data.val.mint)
    IN
    IF ~swap_list.ok THEN swap_list
    ELSE IF ~data.ok THEN data
    ELSE IF ~to_decimals.ok THEN to_decimals
    ELSE Ok([cls |-> "pumpfun.Buy",
             program_id |-> PumpFunId,
             program_name |-> "PumpFun",
             instruction_name |-> "Buy",
             who |-> data.val.user,
             from_token |-> WSOL_MINT,
             from_token_decimals |-> SOL_DECIMALS,
             to_token |-> data.val.mint,
             to_token_decimals |-> to_decimals.val,
             from_token_amount |-> data.val.sol_amount,
             to_token_amount |-> from_bytes_little(Slice(decoded_data, 8, 16))])

\* _PumpFunParser.parse_Buy
PumpFun_parse_Buy(t, instruction_index, decoded_data) ==
    LET swap_list == PumpFun_parse_swap(t, instruction_index)
        data == PyIndex(swap_list.val, 0)
        to_decimals == PumpFun_get_token_decimals(t, data.val.mint)
    IN
    IF ~swap_list.ok THEN swap_list
    ELSE IF ~data.ok THEN data
    ELSE IF ~to_decimals.ok THEN to_decimals
    ELSE Ok([cls |-> "pumpfun.Buy",
             program_id |-> PumpFunId,
             program_name |-> "PumpFun",
             instruction_name |-> "Buy",
             who |-> data.val.user,
             from_token |-> WSOL_MINT,
             from_token_decimals |-> SOL_DECIMALS,
             to_token |-> data.val.mint,
             to_token_decimals |-> to_decimals.val,
             from_token_amount |-> data.val.sol_amount,
             to_token_amount |-> data.val.token_amount])

\* _PumpFunParser.parse_Sell
PumpFun_parse_Sell(t, instruction_index, decoded_data) ==
    LET swap_list == PumpFun_parse_swap(t, instruction_index)
        data == PyIndex(swap_list.val, 0)
        from_decimals == PumpFun_get_token_decimals(t, data.val.mint)
    IN
    IF ~swap_list.ok THEN swap_list
    ELSE IF ~data.ok THEN data
    ELSE IF ~from_decimals.ok THEN from_decimals
    ELSE Ok([cls |-> "pumpfun.Sell",
             program_id |-> PumpFunId,
             program_name |-> "PumpFun",
             instruction_name |-> "Sell",
             who |-> data.val.user,
             from_token |-> data.val.mint,
             from_token_decimals |-> from_decimals.val,
             to_token |-> WSOL_MINT,
             to_token_decimals |-> SOL_DECIMALS,
             from_token_amount |-> data.val.token_amount,
             to_token_amount |-> data.val.sol_amount])

\* TransferWithSeedData.decode: 4 bytes of padding, lamports (u64), seed (a
\* u32 length and that many bytes, kept as bytes), owner (32 bytes). The
\* qborsh reader is taken to raise when the data ends before the layout does.
TransferWithSeedData_decode(d) ==
    LET n == from_bytes_little(Slice(d, 12, 16)) IN
    IF Len(d) < 16 THEN Raise("DecodeError")
    ELSE IF Len(d) < 16 + n + 32 THEN Raise("DecodeError")
    ELSE Ok([lamports |-> from_bytes_little(Slice(d, 4, 12)),
             seed |-> Slice(d, 16, 16 + n),
             owner |-> PubKey_str(Slice(d, 16 + n, 16 + n + 32))])

\* A variant of the TransferWithSeed decoder that takes the destination from
\* account position 1.
SystemProgram_process_TransferWithSeed_destination_at_1(t, instruction_index, decoded_data) ==
    LET instr == t.message.instructions[instruction_index + 1]
        accounts == instr.accounts
        data == TransferWithSeedData_decode(decoded_data)
        source_account == IF accounts # <<>> THEN AccountAt(t, accounts, 0) ELSE Ok(NoneStr)
        destination_account ==
            IF Len(accounts) > 1 THEN AccountAt(t, accounts, 1) ELSE Ok(NoneStr)
    IN
    IF ~data.ok THEN data
    ELSE IF ~source_account.ok THEN source_account
    ELSE IF ~destination_account.ok THEN destination_account
    ELSE Ok([cls |-> "systemProgram.TransferWithSeed",
             program_id |-> SystemProgramId,
             program_name |-> "System Program",
             instruction_name |-> "TransferWithSeed",
             source_account |-> source_account.val,
             destination_account |-> destination_account.val,
             lamports |-> data.val.lamports,
             seed |-> data.val.seed,
             owner |-> data.val.owner])

\* _SystemProgramParser.process_TransferWithSeed
SystemProgram_process_TransferWithSeed(t, instruction_index, decoded_data) ==
    LET instr == t.message.instructions[instruction_index + 1]
        accounts == instr.accounts
        data == TransferWithSeedData_decode(decoded_data)
        source_account == IF accounts # <<>> THEN AccountAt(t, accounts, 0) ELSE Ok(NoneStr)
        destination_account ==
            IF Len(accounts) > 2 THEN AccountAt(t, accounts, 2) ELSE Ok(NoneStr)
    IN
    IF ~data.ok THEN data
    ELSE IF ~source_account.ok THEN source_account
    ELSE IF ~destination_account.ok THEN destination_account
    ELSE Ok([cls |-> "systemProgram.TransferWithSeed",
             program_id |-> SystemProgramId,
             program_name |-> "System Program",
             instruction_name |-> "TransferWithSeed",
             source_account |-> source_account.val,
             destination_account |-> destination_account.val,
             lamports |-> data.val.lamports,
             seed |-> data.val.seed,
             owner |-> data.val.owner])

\* parser_func(tx, instruction_index, decoded_data) for the bound method
\* parser_func of the decoder.
Call(program, parser_func, t, instruction_index, decoded_data) ==
    CASE program.cls = "UnknownParser" /\ parser_func = "process_Unknown" ->
            UnknownParser_process_Unknown(program, t, instruction_index, decoded_data)
      [] program.cls = "_SystemProgramParser" /\ parser_func = "process_Transfer" ->
            SystemProgram_process_Transfer(t, instruction_index, decoded_data)
      [] program.cls = "_SystemProgramParser" /\ parser_func = "process_TransferWithSeed" ->
            SystemProgram_process_TransferWithSeed(t, instruction_index, decoded_data)
      [] program.cls = "_ComputeBudgetParser" /\ parser_func = "process_SetComputeUnitLimit" ->
            ComputeBudget_process_SetComputeUnitLimit(t, instruction_index, decoded_data)
      [] program.cls = "_ComputeBudgetParser" /\ parser_func = "process_SetComputeUnitPrice" ->
            ComputeBudget_process_SetComputeUnitPrice(t, instruction_index, decoded_data)
      [] program.cls = "_TokenProgramParser" /\ parser_func = "process_Transfer" ->
            TokenProgram_process_Transfer(t, instruction_index, decoded_data)
      [] program.cls = "_TokenProgramParser" /\ parser_func = "process_TransferChecked" ->
            TokenProgram_process_TransferChecked(t, instruction_index, decoded_data)
      [] program.cls = "_TokenProgramParser" /\ parser_func = "process_Unknown" ->
            TokenProgram_process_Unknown(t, instruction_index, decoded_data)
      [] program.cls = "_PumpFunParser" /\ parser_func = "parse_Buy" ->
            PumpFun_parse_Buy(t, instruction_index, decoded_data)
      [] program.cls = "_PumpFunParser" /\ parser_func = "parse_Sell" ->
            PumpFun_parse_Sell(t, instruction_index, decoded_data)
      [] program.cls = "_PumpFunParser" /\ parser_func = "parse_Create" ->
            PumpFun_parse_Create(t, instruction_index, decoded_data)

\* A variant of route that takes the "default" entry whenever the map has one,
\* and the keyed entry only otherwise.
route_default_first(program, t, instruction_index) ==
    LET instr == t.message.instructions[instruction_index + 1]
        decoded_data == DecodedData(instr)
        discriminator == desc(program, decoded_data)
    IN
    IF ~discriminator.ok THEN discriminator
    ELSE LET parser_func ==
                 IF desc_map(program).default # NoneStr THEN desc_map(program).default
                 ELSE DictGet(desc_map(program).table, discriminator.val, NoneStr)
         IN
         IF parser_func = NoneStr THEN Raise("NotImplementedError")
         ELSE Call(program, parser_func, t, instruction_index, decoded_data)

\* Program.route
route(program, t, instruction_index) ==
    LET instr == t.message.instructions[instruction_index + 1]
        decoded_data == DecodedData(instr)
        discriminator == desc(program, decoded_data)
    IN
    IF ~discriminator.ok THEN discriminator
    ELSE LET parser_func == DictGet(desc_map(program).table, discriminator.val,
                                    desc_map(program).default)
         IN
         IF parser_func = NoneStr THEN Raise("NotImplementedError")
         ELSE Call(program, parser_func, t, instruction_index, decoded_data)

-----------------------------------------------------------------------------
(* parser.parse *)

\* parsed_instructions = []
ParseEnter ==
    /\ pc = "idle"
    /\ parsed_instructions' = <<>>
    /\ origin' = <<>>
    /\ idx' = 0
    /\ pc' = "loop"
    /\ UNCHANGED <<tx, correlated, sharedVars, callerVars, returned, accountVars, resolveVars>>

\* tx.message.accountKeys[instruction.programIdIndex]
ProgramIdOf(t, instruction) ==
    PyIndex(t.message.accountKeys, instruction.programIdIndex)

\* The loop body's outcome for position i: the action appended, or the exception.
RouteInstruction(t, i) ==
    LET program_id == ProgramIdOf(t, t.message.instructions[i + 1]) IN
    IF ~program_id.ok THEN program_id
    ELSE route(Handler(program_id.val), t, i)

\* A variant of the loop body that puts the new record in front of the list.
ParseStep_prepend ==
    /\ pc = "loop"
    /\ idx < Len(tx.message.instructions)
    /\ LET action == RouteInstruction(tx, idx) IN
        IF action.ok
        THEN /\ parsed_instructions' = <<action.val>> \o parsed_instructions
             /\ origin' = <<idx>> \o origin
             /\ idx' = idx + 1
             /\ UNCHANGED <<pc, returned>>
        ELSE /\ pc' = "raised"
             /\ returned' = action
             /\ UNCHANGED <<idx, parsed_instructions, origin>>
    /\ UNCHANGED <<tx, correlated, sharedVars, callerVars, accountVars, resolveVars>>

\* A variant of the loop body that catches the exception of a failing
\* instruction, puts an Unknown record at its position and goes on.
ParseStep_skips_failure ==
    /\ pc = "loop"
    /\ idx < Len(tx.message.instructions)
    /\ LET action == RouteInstruction(tx, idx) IN
        /\ parsed_instructions' =
                Append(parsed_instructions,
                       IF action.ok THEN action.val ELSE UnknownRecord("Unknown", idx))
        /\ origin' = Append(origin, idx)
        /\ idx' = idx + 1
        /\ UNCHANGED <<pc, returned>>
    /\ UNCHANGED <<tx, correlated, sharedVars, callerVars, accountVars, resolveVars>>

\* One iteration of the for loop: resolve the program id, pick the router,
\* route, append. An exception leaves parse at once.
ParseStep ==
    /\ pc = "loop"
    /\ idx < Len(tx.message.instructions)
    /\ LET action == RouteInstruction(tx, idx) IN
        IF action.ok
        THEN /\ parsed_instructions' = Append(parsed_instructions, action.val)
             /\ origin' = Append(origin, idx)
             /\ idx' = idx + 1
             /\ UNCHANGED <<pc, returned>>
        ELSE /\ pc' = "raised"
             /\ returned' = action
             /\ UNCHANGED <<idx, parsed_instructions, origin>>
    /\ UNCHANGED <<tx, correlated, sharedVars, callerVars, accountVars, resolveVars>>

\* The loop is over: return ParsedTransaction(signatures, instructions, addons).
\* The addon enrichers only fill the addons field, which is not carried here.
ParseReturn ==
    /\ pc = "loop"
    /\ idx = Len(tx.message.instructions)
    /\ returned' = Ok([cls |-> "ParsedTransaction",
                       signatures |-> tx.signatures,
                       instructions |-> parsed_instructions])
    /\ pc' = "returned"
    /\ UNCHANGED <<tx, correlated, sharedVars, callerVars, idx, parsed_instructions, origin, accountVars, resolveVars>>

-----------------------------------------------------------------------------
(* The state the parser module shares between calls *)

MaxCallers == 3

Callers == 1..MaxCallers

\* id_to_handler as the module builds it on import.
Registry ==
    [program_id \in RegisteredIds |-> Handler(program_id)]

\* The decoders of the sources that id_to_handler holds, one object each.
Singletons ==
    {SystemProgramParser, ComputeBudgetParser, TokenProgramParser, PumpFunParser}

\* The desc_map each of these decoders builds in __init__, by class.
DescMaps ==
    [cls \in {p.cls : p \in Singletons} |->
        desc_map(CHOOSE p \in Singletons : p.cls = cls)]

\* The locals of a caller that has not called parse. The field given is
\* history: the transaction as it was when the caller handed it to parse.
IdleCall ==
    [tx |-> None, given |-> None, pc |-> "idle", idx |-> 0,
     parsed_instructions |-> <<>>, returned |-> None, resolved |-> None]

\* _parse_swap has not been called.
CorrelateIdle == correlated = None

\* The module is imported and no caller has called parse.
CallersIdle ==
    /\ id_to_handler = Registry
    /\ desc_maps = DescMaps
    /\ calls = [c \in Callers |-> IdleCall]
    /\ dispatch_log = {}

-----------------------------------------------------------------------------
(* The account resolver and the resolver as specifications *)

InitAccounts ==
    /\ tx \in AccountLayouts
    /\ ParseIdle /\ AccountsIdle /\ ResolveIdle /\ CorrelateIdle /\ CallersIdle
    /\ parsed_data = None

NextAccounts ==
    \/ EvalAllAccounts
    \/ \E i \in -1..(3 * MaxKeys) : Subscript(i)

SpecAccounts == InitAccounts /\ [][NextAccounts]_vars

\* The dict handed to resolve: with the "instructions" key, or without it.
InitResolve ==
    /\ tx = EmptyTransaction
    /\ ParseIdle /\ AccountsIdle /\ ResolveIdle /\ CorrelateIdle /\ CallersIdle
    /\ \/ \E list \in ResolverInputs : parsed_data = [instructions |-> list]
       \/ parsed_data = [signatures |-> <<>>]

SpecResolve == InitResolve /\ [][NextResolve]_vars

-----------------------------------------------------------------------------
(* The router on transactions of a few instructions *)

MaxInstr == 2

VoteProgramId == "Vote111111111111111111111111111111111111111"

\* accountKeys of the transactions parsed: a wallet, three decoders' programs
\* and a program without a decoder.
ParseStaticKeys ==
    <<"Alice", SystemProgramId, ComputeBudgetId, TokenProgramId, VoteProgramId>>

\* The loaded addresses of the transactions parsed: none, or one of each kind.
ParseLoaded == {<<<<>>, <<>>>>, <<<<"W1">>, <<"R1">>>>}

\* Instructions of the programs that have a decoder.
DecoderInstructionSamples ==
    {Instruction(1, Data(<<2, 0, 0, 0, 64, 66, 15, 0, 0, 0, 0, 0>>), <<0, 4>>),
     Instruction(1, Data(<<77, 0, 0, 0>>), <<0>>),
     Instruction(2, Data(<<2, 64, 13, 3, 0>>), <<>>),
     Instruction(2, Data(<<3, 16, 39, 0, 0, 0, 0, 0, 0>>), <<>>),
     Instruction(3, Data(<<3, 244, 1, 0, 0, 0, 0, 0, 0>>), <<0, 5>>),
     Instruction(3, Data(<<200>>), <<>>),
     Instruction(3, Data(<<>>), <<0>>)}

\* Instructions of a program without a decoder: any data, any account list.
UnknownInstructionSamples ==
    {Instruction(p, d, a) :
        p \in {4, -1},
        d \in {None, Data(<<>>), Data(<<2, 0, 0, 0>>), Data(<<200, 1>>)},
        a \in {<<>>, <<99, -7>>}}

\* Instructions whose programIdIndex is past the static keys.
LoadedProgramInstructionSamples ==
    {Instruction(5, Data(<<>>), <<>>), Instruction(9, Data(<<1>>), <<0>>)}

InstructionSamples ==
    DecoderInstructionSamples \cup UnknownInstructionSamples
        \cup LoadedProgramInstructionSamples

Init ==
    /\ \E instrs \in SeqsOf(InstructionSamples, 0, MaxInstr), l \in ParseLoaded :
        tx = Transaction(ParseStaticKeys, instrs, l[1], l[2])
    /\ ParseIdle /\ AccountsIdle /\ ResolveIdle /\ CorrelateIdle /\ CallersIdle
    /\ parsed_data = None

Next ==
    \/ ParseEnter
    \/ ParseStep
    \/ ParseReturn

Spec == Init /\ [][Next]_vars

-----------------------------------------------------------------------------
(* Properties of the router *)

\* The program id the router resolves for raw instruction i (0-based).
ResolvedId(i) == ProgramIdOf(tx, tx.message.instructions[i + 1])

\* Raw instruction i belongs to a program without a registered decoder.
Unregistered(i) ==
    /\ ResolvedId(i).ok
    /\ ResolvedId(i).val \notin
        {"11111111111111111111111111111111",
         "ComputeBudget111111111111111111111111111111",
         "TokenkegQfeZyiNwAJbNbGKPFXCWuBvf9Ss623VQ5DA",
         RaydiumAMMId,
         "6EF8rrecthR5Dkzon8Nwu78hRvfCKubJ14M5uBEwF6P"}

\* C1: when parse returns, the instruction list has one record per raw
\* instruction, in the same order: record i was appended at loop position i,
\* carries the program id of raw instruction i and is what routing raw
\* instruction i yields.
C1_OneRecordPerInstruction ==
    pc = "returned" =>
        LET out == returned.val.instructions IN
        /\ Len(out) = Len(tx.message.instructions)
        /\ \A i \in 1..Len(out) :
            /\ origin[i] = i - 1
            /\ ResolvedId(i - 1).ok
            /\ out[i].program_id = ResolvedId(i - 1).val
            /\ Ok(out[i]) = RouteInstruction(tx, i - 1)

\* parse returned two different records for two instructions.
C1_Witness ==
    /\ pc = "returned"
    /\ Len(returned.val.instructions) = 2
    /\ returned.val.instructions[1].cls = "systemProgram.Transfer"
    /\ returned.val.instructions[2].cls = "unknown.Unknown"

\* C2: an instruction whose program id is not a registered decoder id is
\* decoded, whatever its data and account indices, to Unknown(program_id =
\* that id, program_name "Unknown", instruction_name "Unknown",
\* instruction_index = its position); parse never raises at such an
\* instruction, and goes on to the instructions after it.
C2_UnregisteredProgramIsUnknown ==
    /\ \A i \in 1..Len(parsed_instructions) :
        Unregistered(i - 1) =>
            parsed_instructions[i] =
                [cls |-> "unknown.Unknown",
                 program_id |-> ResolvedId(i - 1).val,
                 program_name |-> "Unknown",
                 instruction_name |-> "Unknown",
                 instruction_index |-> i - 1]
    /\ pc = "raised" => ~Unregistered(idx)
    /\ pc = "loop" => Len(parsed_instructions) = idx /\ ENABLED Next

\* An instruction of an unregistered program with data and out-of-range
\* account indices was decoded at position 0, and the System transfer after it
\* was decoded too.
C2_Witness ==
    /\ pc = "returned"
    /\ Len(tx.message.instructions) = 2
    /\ Len(returned.val.instructions) = 2
    /\ tx.message.instructions[1] = Instruction(4, Data(<<200, 1>>), <<99, -7>>)
    /\ returned.val.instructions[1] = UnknownRecord(VoteProgramId, 0)
    /\ returned.val.instructions[2].cls = "systemProgram.Transfer"

-----------------------------------------------------------------------------
(* The decoders on one instruction of each layout, between other instructions *)

MaxTail == 1

\* accountKeys of the transactions decoded: a wallet, the four decoders'
\* programs present in the source and a program without a decoder.
DecodeStaticKeys ==
    <<"Alice", SystemProgramId, ComputeBudgetId, TokenProgramId, VoteProgramId,
      PumpFunId>>

\* Data of a TransferWithSeed of 700 lamports with seed "ab" and owner Bob.
TransferWithSeedSample ==
    <<9, 0, 0, 0, 188, 2, 0, 0, 0, 0, 0, 0, 2, 0, 0, 0, 97, 98>> \o PubKeyBytes("Bob")

\* Data of System Program instructions: a Transfer of 1000000 lamports, a
\* Transfer cut short, a TransferWithSeed, and two discriminators outside 0..9.
SystemDataSamples ==
    {<<2, 0, 0, 0, 64, 66, 15, 0, 0, 0, 0, 0>>,
     TransferWithSeedSample,
     <<2, 0, 0, 0, 64, 66>>,
     <<10, 0, 0, 0>>,
     <<77, 1>>}

\* Data of Compute Budget instructions: both variants whole and cut short,
\* discriminators outside {2, 3}, and no data at all.
ComputeBudgetDataSamples ==
    {<<2, 64, 13, 3, 0>>, <<2, 64>>, <<2>>,
     <<3, 16, 39, 0, 0, 0, 0, 0, 0>>, <<3, 16, 39>>, <<3>>,
     <<0>>, <<4, 1>>, <<>>}

\* Data of Token Program instructions: Transfer and TransferChecked whole and
\* cut short, first bytes outside 0..15, and no data at all.
TokenDataSamples ==
    {<<3, 244, 1, 0, 0, 0, 0, 0, 0>>, <<3, 244>>, <<3>>,
     <<12, 244, 1, 0, 0, 0, 0, 0, 0, 6>>, <<12, 244, 1, 0, 0, 0, 0, 0, 0>>,
     <<16>>, <<200, 3>>, <<255>>, <<>>}

\* Data of launch-program instructions whose first 8 bytes are none of the
\* three discriminators: too short, a prefix of one, and another 8 bytes.
PumpFunUnrecognizedDataSamples ==
    {<<>>, <<102, 6, 61>>, <<102, 6, 61, 18, 1, 218, 235, 0, 9>>}

\* Data of a launch-program Create with name "A", symbol "BC" and uri "D".
CreateSample ==
    calculate_discriminator("global:create")
        \o <<1, 0, 0, 0, 65, 2, 0, 0, 0, 66, 67, 1, 0, 0, 0, 68>>

\* Data of a Create whose uri is cut short.
ShortCreateSample ==
    calculate_discriminator("global:create") \o <<1, 0, 0, 0, 65, 2, 0, 0, 0, 66, 67, 5, 0>>

\* The account list of a Create, each position holding another index; 6 and
\* 7 are valid only with loaded addresses.
CreateAccounts == <<5, 4, 3, 2, 1, 0, 6, 7>>

\* The account lists of the Create instructions: every prefix of
\* CreateAccounts, and a list whose position 4 holds an index past the end.
CreateAccountListSamples ==
    {SubSeq(CreateAccounts, 1, n) : n \in 0..8} \cup {<<5, 4, 3, 2, 99, 0>>, <<5, 99>>}

\* Account-index lists: in range of the static keys (0..5), in range of the
\* unified list only (6, 7), past it (8), and negative.
AccountListSamples ==
    {<<>>, <<0>>, <<0, 4>>, <<6, 7>>, <<0, 6, 7>>, <<0, 8>>, <<-1, 0>>, <<0, -9, 1>>}

\* The instruction under study: one of a program with a decoder, or one whose
\* programIdIndex points into the loaded addresses (6, 7).
DecodeSamples ==
    {Instruction(1, Data(d), a) : d \in SystemDataSamples, a \in AccountListSamples}
        \cup {Instruction(2, Data(d), <<>>) : d \in ComputeBudgetDataSamples}
        \cup {Instruction(3, Data(d), a) : d \in TokenDataSamples, a \in AccountListSamples}
        \cup {Instruction(5, Data(d), <<0>>) : d \in PumpFunUnrecognizedDataSamples}
        \cup {Instruction(5, Data(CreateSample), a) : a \in CreateAccountListSamples}
        \cup {Instruction(5, Data(ShortCreateSample), <<5, 4>>)}
        \cup {Instruction(3, None, <<0>>), Instruction(4, None, <<>>)}
        \cup {Instruction(6, Data(<<7>>), <<0>>), Instruction(7, Data(<<3, 1>>), <<>>)}

\* The instructions around it: a System Transfer and one of an unregistered
\* program.
TailSamples ==
    {Instruction(1, Data(<<2, 0, 0, 0, 5, 0, 0, 0, 0, 0, 0, 0>>), <<0, 4>>),
     Instruction(4, Data(<<9>>), <<>>)}

\* The loaded addresses: none, one of each kind, or a registered program's
\* address among the writable ones.
DecodeLoaded ==
    {<<<<>>, <<>>>>, <<<<"W1">>, <<"R1">>>>, <<<<TokenProgramId>>, <<"R1">>>>}

InitDecode ==
    /\ \E lead \in SeqsOf(TailSamples, 0, MaxTail), d \in DecodeSamples,
          tail \in SeqsOf(TailSamples, 0, MaxTail), l \in DecodeLoaded :
        tx = Transaction(DecodeStaticKeys, lead \o <<d>> \o tail, l[1], l[2])
    /\ ParseIdle /\ AccountsIdle /\ ResolveIdle /\ CorrelateIdle /\ CallersIdle
    /\ parsed_data = None

SpecDecode == InitDecode /\ [][Next]_vars

-----------------------------------------------------------------------------
(* Properties of the decoders *)

\* The unified account list of the transaction being parsed.
Unified == all_accounts(tx)

\* Raw instruction i (0-based) of the transaction being parsed.
Raw(i) == tx.message.instructions[i + 1]

\* The programIdIndex of raw instruction i points past the static keys, into
\* the loaded addresses.
ProgramIsLoaded(i) ==
    /\ Raw(i).programIdIndex >= Len(tx.message.accountKeys)
    /\ Raw(i).programIdIndex < Len(Unified)

\* C11: the program id used for routing is the unified-list address at
\* programIdIndex; an instruction whose programIdIndex points into the loaded
\* addresses is routed by that address and parse does not fail at it.
C11_RoutesByUnifiedList ==
    /\ \A i \in 1..Len(parsed_instructions) :
        Raw(i - 1).programIdIndex >= 0 =>
            /\ PyIndex(Unified, Raw(i - 1).programIdIndex).ok
            /\ parsed_instructions[i].program_id =
                PyIndex(Unified, Raw(i - 1).programIdIndex).val
    /\ pc = "raised" => ~ProgramIsLoaded(idx)

\* The positions (1-based) of the account list that the decoder of record i
\* dereferences.
Dereferenced(i) ==
    LET cls == parsed_instructions[i + 1].cls
        n == Len(Raw(i).accounts)
    IN
    CASE cls = "tokenProgram.Transfer" -> {1, 2}
      [] cls = "tokenProgram.TransferChecked" -> {1, 2, 3}
      [] cls = "systemProgram.Transfer" -> 1..(IF n < 2 THEN n ELSE 2)
      [] OTHER -> {}

\* C12: a record is produced only when every account index its decoder
\* dereferences is within 0..len(unified list)-1; an index below 0 or past
\* the end makes the instruction fail.
C12_OutOfRangeIndexFails ==
    \A i \in 1..Len(parsed_instructions) :
        \A k \in Dereferenced(i - 1) :
            Raw(i - 1).accounts[k] \in 0..(Len(Unified) - 1)

\* The decoder raw instruction i is routed to.
Program(i) == Handler(ResolvedId(i).val)

\* The discriminator extracted from raw instruction i.
Key(i) == desc(Program(i), DecodedData(Raw(i)))

\* The decode function the dispatch described in C13 selects for raw
\* instruction i: the entry of the key, else the default entry, else none
\* (NoneStr).
Dispatched(i) ==
    LET cls == Program(i).cls
        key == Key(i).val
    IN
    CASE cls = "_SystemProgramParser" ->
            IF key \in 0..9 THEN SystemProcessors[key + 1] ELSE NoneStr
      [] cls = "_ComputeBudgetParser" ->
            IF key = 2 THEN "process_SetComputeUnitLimit"
            ELSE IF key = 3 THEN "process_SetComputeUnitPrice"
            ELSE NoneStr
      [] cls = "_TokenProgramParser" ->
            IF key \in 0..15 THEN TokenProcessors[key + 1] ELSE "process_Unknown"
      [] cls = "_PumpFunParser" ->
            IF key = <<102, 6, 61, 18, 1, 218, 235, 234>> THEN "parse_Buy"
            ELSE IF key = <<51, 230, 133, 164, 1, 127, 131, 173>> THEN "parse_Sell"
            ELSE IF key = <<24, 30, 200, 40, 5, 28, 7, 119>> THEN "parse_Create"
            ELSE NoneStr
      [] cls = "UnknownParser" -> "process_Unknown"

\* What invoking the dispatched decode function on raw instruction i gives.
Invoked(i) == Call(Program(i), Dispatched(i), tx, i, DecodedData(Raw(i)))

\* Raw instruction i reached the table lookup: its program id resolved and a
\* key was extracted.
LookedUp(i) == ResolvedId(i).ok /\ Key(i).ok

\* C13: for every instruction that reached the table lookup, the outcome is
\* that of the table entry of its key, else of the default entry; with neither,
\* route raises NotImplementedError and no record is appended. So a System key
\* outside 0..9, a Compute Budget key outside {2, 3} and a launch-program key
\* that is none of the three hashes are fatal for the instruction.
C13_RouteDispatch ==
    /\ \A i \in 1..Len(parsed_instructions) :
        LookedUp(i - 1) =>
            /\ Dispatched(i - 1) # NoneStr
            /\ Invoked(i - 1) = Ok(parsed_instructions[i])
    /\ (pc = "raised" /\ LookedUp(idx)) =>
            /\ Len(parsed_instructions) = idx
            /\ IF Dispatched(idx) = NoneStr
               THEN returned = Raise("NotImplementedError")
               ELSE returned = Invoked(idx)
    /\ (pc = "loop" /\ idx < Len(tx.message.instructions) /\ LookedUp(idx)
            /\ Dispatched(idx) = NoneStr) =>
        ~ENABLED (ParseStep /\ pc' = "loop")

\* A System Transfer was decoded through its table entry, and the Compute
\* Budget instruction after it, whose key 4 has no entry, raised.
C13_Witness ==
    /\ pc = "raised"
    /\ idx = 1
    /\ parsed_instructions[1].cls = "systemProgram.Transfer"
    /\ Raw(1) = Instruction(2, Data(<<4, 1>>), <<>>)
    /\ returned = Raise("NotImplementedError")

\* Raw instruction i is routed to the Token Program and its first data byte
\* is outside 0..15.
TokenUnrecognized(i) ==
    /\ ResolvedId(i) = Ok(TokenProgramId)
    /\ DecodedData(Raw(i)) # <<>>
    /\ DecodedData(Raw(i))[1] \notin 0..15

\* C14: a Token Program instruction whose first data byte is outside 0..15
\* decodes, for any account-index list, to the Token Unknown record; parse
\* does not raise at it and goes on to the following instructions.
C14_TokenUnrecognizedIsUnknown ==
    /\ \A i \in 1..Len(parsed_instructions) :
        TokenUnrecognized(i - 1) =>
            parsed_instructions[i] =
                [cls |-> "tokenProgram.Unknown",
                 program_id |-> "TokenkegQfeZyiNwAJbNbGKPFXCWuBvf9Ss623VQ5DA",
                 program_name |-> "TokenProgram",
                 instruction_name |-> "Unknown"]
    /\ pc = "raised" => ~TokenUnrecognized(idx)
    /\ (pc = "loop" /\ idx < Len(tx.message.instructions) /\ TokenUnrecognized(idx)) =>
        ENABLED (ParseStep /\ pc' = "loop")

\* A Token instruction with first byte 200 and no accounts was decoded to the
\* Token Unknown record, and the System Transfer after it was decoded too.
C14_Witness ==
    /\ pc = "returned"
    /\ Len(tx.message.instructions) = 2
    /\ Raw(0) = Instruction(3, Data(<<200, 3>>), <<>>)
    /\ returned.val.instructions[1].cls = "tokenProgram.Unknown"
    /\ returned.val.instructions[2].cls = "systemProgram.Transfer"

\* C15: every record named "Unknown", whether produced for a program without
\* a decoder or through a decoder's default entry, carries the raw instruction
\* index of the instruction it was produced from.
C15_UnknownCarriesIndex ==
    \A i \in 1..Len(parsed_instructions) :
        parsed_instructions[i].instruction_name = "Unknown" =>
            /\ "instruction_index" \in DOMAIN parsed_instructions[i]
            /\ parsed_instructions[i].instruction_index = i - 1

\* The number of data bytes the layout of the variant of record i takes,
\* discriminator included.
LayoutWidth(i) ==
    LET cls == parsed_instructions[i + 1].cls IN
    CASE cls = "computeBudget.SetComputeUnitLimit" -> 5
      [] cls = "computeBudget.SetComputeUnitPrice" -> 9
      [] cls = "tokenProgram.Transfer" -> 9
      [] cls = "tokenProgram.TransferChecked" -> 10
      [] OTHER -> 0

\* C16: a record of a fixed-layout variant is produced only from data at
\* least as long as the layout; shorter data makes the instruction fail.
C16_NoSilentTruncation ==
    \A i \in 1..Len(parsed_instructions) :
        Len(DecodedData(Raw(i - 1))) >= LayoutWidth(i - 1)

\* The first two account indices of raw instruction i exist and are valid in
\* the unified list.
TwoValidAccounts(i) ==
    /\ Len(Raw(i).accounts) >= 2
    /\ \A k \in 1..2 : Raw(i).accounts[k] \in 0..(Len(Unified) - 1)

\* Raw instruction i is routed to the System Program, its data is the u32 2
\* followed by a u64, and its accounts [a, b] are valid.
SystemTransferCase(i) ==
    /\ ResolvedId(i) = Ok(SystemProgramId)
    /\ Len(DecodedData(Raw(i))) = 12
    /\ SubSeq(DecodedData(Raw(i)), 1, 4) = <<2, 0, 0, 0>>
    /\ TwoValidAccounts(i)

\* C17: such an instruction decodes to Transfer(from_account = unified[a],
\* to_account = unified[b], lamports = the u64) of the System Program, and
\* does not fail.
C17_SystemTransfer ==
    /\ \A i \in 1..Len(parsed_instructions) :
        SystemTransferCase(i - 1) =>
            parsed_instructions[i] =
                [cls |-> "systemProgram.Transfer",
                 program_id |-> "11111111111111111111111111111111",
                 program_name |-> "System Program",
                 instruction_name |-> "Transfer",
                 from_account |-> Unified[Raw(i - 1).accounts[1] + 1],
                 to_account |-> Unified[Raw(i - 1).accounts[2] + 1],
                 lamports |-> from_bytes_little(SubSeq(DecodedData(Raw(i - 1)), 5, 12))]
    /\ pc = "raised" => ~SystemTransferCase(idx)

\* A System Transfer of 1000000 lamports between the two loaded addresses
\* was decoded.
C17_Witness ==
    /\ pc = "returned"
    /\ Raw(0) = Instruction(1, Data(<<2, 0, 0, 0, 64, 66, 15, 0, 0, 0, 0, 0>>), <<6, 7>>)
    /\ returned.val.instructions[1].cls = "systemProgram.Transfer"
    /\ returned.val.instructions[1].from_account = "W1"
    /\ returned.val.instructions[1].to_account = "R1"
    /\ returned.val.instructions[1].lamports = 1000000

\* Raw instruction i is routed to the Token Program, its first data byte is 3
\* and is followed by a u64, and its accounts [s, d] are valid.
TokenTransferCase(i) ==
    /\ ResolvedId(i) = Ok(TokenProgramId)
    /\ Len(DecodedData(Raw(i))) >= 9
    /\ DecodedData(Raw(i))[1] = 3
    /\ TwoValidAccounts(i)

\* C18: such an instruction decodes to Transfer(from_account = unified[s],
\* to = unified[d], amount = the u64 at bytes 1..8) of the Token Program.
C18_TokenTransfer ==
    /\ \A i \in 1..Len(parsed_instructions) :
        TokenTransferCase(i - 1) =>
            parsed_instructions[i] =
                [cls |-> "tokenProgram.Transfer",
                 program_id |-> "TokenkegQfeZyiNwAJbNbGKPFXCWuBvf9Ss623VQ5DA",
                 program_name |-> "TokenProgram",
                 instruction_name |-> "Transfer",
                 from_account |-> Unified[Raw(i - 1).accounts[1] + 1],
                 to |-> Unified[Raw(i - 1).accounts[2] + 1],
                 amount |-> from_bytes_little(SubSeq(DecodedData(Raw(i - 1)), 2, 9))]
    /\ pc = "raised" => ~TokenTransferCase(idx)

\* A Token Transfer of 500 from the wallet to a loaded address was decoded
\* after a System Transfer.
C18_Witness ==
    /\ pc = "returned"
    /\ Len(tx.message.instructions) >= 2
    /\ Raw(1) = Instruction(3, Data(<<3, 244, 1, 0, 0, 0, 0, 0, 0>>), <<0, 6, 7>>)
    /\ returned.val.instructions[2].cls = "tokenProgram.Transfer"
    /\ returned.val.instructions[2].from_account = "Alice"
    /\ returned.val.instructions[2].to = "W1"
    /\ returned.val.instructions[2].amount = 500

-----------------------------------------------------------------------------
(* The launch-program decoder on transactions with inner instructions *)

MaxInner == 2

RECURSIVE LittleEndian(_, _)
\* The w bytes of n, least significant first.
LittleEndian(n, w) ==
    IF w = 0 THEN <<>> ELSE <<n % 256>> \o LittleEndian(n \div 256, w - 1)

\* The 16 reserved bytes in front of an event payload.
EventHeader == [k \in 1..16 |-> 228]

\* The bytes of an event: mint, sol_amount, token_amount, is_buy, user, then
\* timestamp and the two reserves (24 bytes, zero here).
EventBytes(mint, sol_amount, token_amount, is_buy, user) ==
    PubKeyBytes(mint) \o LittleEndian(sol_amount, 8) \o LittleEndian(token_amount, 8)
        \o <<IF is_buy THEN 1 ELSE 0>> \o PubKeyBytes(user) \o [k \in 1..24 |-> 0]

\* accountKeys of these transactions.
PumpStaticKeys == <<"Alice", PumpFunId, TokenProgramId>>

\* An inner instruction of the launch program carrying a buy event.
BuyEventA ==
    [programIdIndex |-> 1,
     data |-> EventHeader \o EventBytes("MintA", 1500000000, 500, TRUE, "Bob")]

\* An inner instruction of the launch program carrying a sell event.
SellEventB ==
    [programIdIndex |-> 1,
     data |-> EventHeader \o EventBytes("MintB", 7, 9, FALSE, "Carol")]

\* Inner instructions: the two events, launch-program data of 15 bytes, and
\* an event-sized instruction of another program.
InnerSamples ==
    {BuyEventA, SellEventB,
     [programIdIndex |-> 1, data |-> [k \in 1..15 |-> 1]],
     [programIdIndex |-> 2,
      data |-> EventHeader \o EventBytes("MintA", 3, 4, TRUE, "Carol")]}

\* Inner instructions at the edges: no "data", a header with nothing after
\* it, a programIdIndex past the unified list, and one that is valid only
\* with a loaded address.
EdgeInnerSamples ==
    {[programIdIndex |-> 1],
     [programIdIndex |-> 1, data |-> EventHeader],
     [programIdIndex |-> 9, data |-> <<1>>],
     [programIdIndex |-> 3,
      data |-> EventHeader \o EventBytes(WSOL_MINT, 11, 12, TRUE, "Bob")]}

InnerLists ==
    SeqsOf(InnerSamples, 0, MaxInner) \cup {<<e>> : e \in EdgeInnerSamples}

\* Groups of inner instructions: of top-level instruction 0 or 1, or without
\* an "index".
GroupSamples ==
    {[index |-> k, instructions |-> l] : k \in {0, 1}, l \in InnerLists}
        \cup {[instructions |-> l] : l \in InnerLists}

\* A second group: one event without an "index", or one event of instruction 1.
SecondGroupSamples ==
    {[instructions |-> <<SellEventB>>], [index |-> 1, instructions |-> <<BuyEventA>>]}

\* meta.innerInstructions: no group, one group, or two.
InnerLayouts ==
    {<<>>} \cup {<<g>> : g \in GroupSamples}
        \cup {<<g, h>> : g \in GroupSamples, h \in SecondGroupSamples}

\* meta.preTokenBalances and meta.postTokenBalances.
BalanceLayouts ==
    {<<<<>>, <<>>>>,
     <<<<TokenBalance("MintA", 6), TokenBalance("MintB", 8)>>, <<>>>>,
     <<<<TokenBalance("MintB", 8)>>, <<TokenBalance("MintA", 6)>>>>,
     <<<<TokenBalance("MintB", 8), TokenBalance("MintA", 5), TokenBalance("MintA", 6)>>,
       <<TokenBalance("MintA", 7), TokenBalance("MintB", 3)>>>>}

BuyInstruction ==
    Instruction(1, Data(calculate_discriminator("global:buy") \o <<16, 39>>), <<0>>)
SellInstruction ==
    Instruction(1, Data(calculate_discriminator("global:sell")), <<>>)

\* The top-level instructions: a buy, a sell, both, or a buy after a Token
\* instruction.
TopLevelLayouts ==
    {<<BuyInstruction>>, <<SellInstruction>>, <<BuyInstruction, SellInstruction>>,
     <<Instruction(2, Data(<<200>>), <<>>), BuyInstruction>>}

\* The loaded addresses: none, or the launch program's address as a writable one.
PumpLoaded == {<<>>, <<PumpFunId>>}

InitPump ==
    /\ \E instrs \in TopLevelLayouts, inner \in InnerLayouts,
          b \in BalanceLayouts, w \in PumpLoaded :
        tx = [Transaction(PumpStaticKeys, instrs, w, <<>>)
                EXCEPT !.meta = Meta(b[1], b[2], inner)]
    /\ ParseIdle /\ AccountsIdle /\ ResolveIdle /\ CorrelateIdle /\ CallersIdle
    /\ parsed_data = None

SpecPump == InitPump /\ [][Next]_vars

-----------------------------------------------------------------------------
(* Properties of the launch-program decoder *)

\* Raw instruction i is a launch-program buy or sell.
IsSwap(i) ==
    /\ ResolvedId(i) = Ok(PumpFunId)
    /\ Slice(DecodedData(Raw(i)), 0, 8) \in
        {<<102, 6, 61, 18, 1, 218, 235, 234>>, <<51, 230, 133, 164, 1, 127, 131, 173>>}

\* The nested instruction in_instr survives correlation with top-level
\* instruction i: same program id through the unified list, and at least 16
\* data bytes.
Survives(in_instr, i) ==
    /\ PyIndex(Unified, in_instr.programIdIndex).ok
    /\ PyIndex(Unified, in_instr.programIdIndex) = PyIndex(Unified, Raw(i).programIdIndex)
    /\ "data" \in DOMAIN in_instr
    /\ Len(in_instr.data) >= 16

\* The positions <<group, instruction>> of the nested instructions that
\* survive correlation with top-level instruction i: those of the groups of i
\* and of the groups without an index.
Survivors(i) ==
    LET groups == tx.meta.innerInstructions IN
    {p \in UNION {{<<g, k>> : k \in 1..Len(groups[g].instructions)} :
                    g \in 1..Len(groups)} :
        /\ "index" \in DOMAIN groups[p[1]] => groups[p[1]].index = i
        /\ Survives(groups[p[1]].instructions[p[2]], i)}

\* C19: a launch-program buy or sell for which no nested instruction survives
\* correlation fails: no record is appended for it.
C19_EmptyCorrelationFails ==
    /\ \A i \in 1..Len(parsed_instructions) :
        IsSwap(i - 1) => Survivors(i - 1) # {}
    /\ (pc = "loop" /\ idx < Len(tx.message.instructions) /\ IsSwap(idx)
            /\ Survivors(idx) = {}) =>
        ~ENABLED (ParseStep /\ pc' = "loop")

\* A buy whose only group holds an instruction of another program and one
\* with 15 data bytes failed with IndexError.
C19_Witness ==
    /\ pc = "raised"
    /\ IsSwap(idx)
    /\ Survivors(idx) = {}
    /\ Len(tx.meta.innerInstructions) = 1
    /\ Len(tx.meta.innerInstructions[1].instructions) = 2
    /\ "index" \in DOMAIN tx.meta.innerInstructions[1]
    /\ tx.meta.innerInstructions[1].index = idx
    /\ returned = Raise("IndexError")

\* C20: a launch-program buy or sell for which more than one nested
\* instruction survives correlation fails: a record is appended only when
\* there is exactly one.
C20_AmbiguousCorrelationFails ==
    \A i \in 1..Len(parsed_instructions) :
        IsSwap(i - 1) => Cardinality(Survivors(i - 1)) <= 1

-----------------------------------------------------------------------------
(* Failure propagation *)

\* C21: a failure in one instruction aborts parse: the call ends with the
\* exception of that instruction and nothing more happens; a ParsedTransaction
\* is returned only when every instruction was decoded, so never with a
\* partial list or with a record standing in for a failed instruction.
C21_FailureAbortsParse ==
    /\ pc = "raised" =>
        /\ ~returned.ok
        /\ returned = RouteInstruction(tx, idx)
        /\ ~ENABLED Next
    /\ pc = "returned" =>
        /\ returned.ok
        /\ Len(returned.val.instructions) = Len(tx.message.instructions)
        /\ \A i \in 1..Len(tx.message.instructions) :
            RouteInstruction(tx, i - 1) = Ok(returned.val.instructions[i])
    /\ pc = "loop" =>
        \A i \in 1..Len(parsed_instructions) : RouteInstruction(tx, i - 1).ok

\* The second instruction failed after the first had been decoded: parse
\* ended with the exception, the record of the first is not returned.
C21_Witness ==
    /\ pc = "raised"
    /\ idx = 1
    /\ Len(parsed_instructions) = 1
    /\ Len(tx.message.instructions) = 3
    /\ returned = Raise("NotImplementedError")

-----------------------------------------------------------------------------
(* TransferWithSeed *)

\* Account position p (0-based) of raw instruction i is absent, or holds an
\* index valid in the unified list.
AbsentOrValid(i, p) ==
    Len(Raw(i).accounts) > p => Raw(i).accounts[p + 1] \in 0..(Len(Unified) - 1)

\* The unified-list address at account position p of raw instruction i, or
\* None when the account list is too short.
AddressAtPosition(i, p) ==
    IF Len(Raw(i).accounts) > p THEN Unified[Raw(i).accounts[p + 1] + 1] ELSE NoneStr

\* Raw instruction i is a well-formed System TransferWithSeed whose account
\* positions 0 and 2, where present, hold valid indices.
TransferWithSeedCase(i) ==
    /\ ResolvedId(i) = Ok(SystemProgramId)
    /\ DecodedData(Raw(i)) = TransferWithSeedSample
    /\ AbsentOrValid(i, 0)
    /\ AbsentOrValid(i, 2)

\* C27: TransferWithSeed reports the address at account position 0 as source
\* and the address at position 2 as destination; position 1 is not read, and
\* with fewer than 3 accounts the destination is absent.
C27_TransferWithSeedRoles ==
    /\ \A i \in 1..Len(parsed_instructions) :
        TransferWithSeedCase(i - 1) =>
            /\ parsed_instructions[i].cls = "systemProgram.TransferWithSeed"
            /\ parsed_instructions[i].source_account = AddressAtPosition(i - 1, 0)
            /\ parsed_instructions[i].destination_account = AddressAtPosition(i - 1, 2)
            /\ parsed_instructions[i].lamports = 700
    /\ pc = "raised" => ~TransferWithSeedCase(idx)

\* A TransferWithSeed with accounts [0, -9, 1], whose position 1 holds an
\* index that is not valid, was decoded with source Alice and the address of
\* index 1 as destination.
C27_Witness ==
    /\ pc = "returned"
    /\ Len(tx.message.instructions) = 1
    /\ Raw(0) = Instruction(1, Data(TransferWithSeedSample), <<0, -9, 1>>)
    /\ returned.val.instructions[1].source_account = "Alice"
    /\ returned.val.instructions[1].destination_account = "11111111111111111111111111111111"

-----------------------------------------------------------------------------
(* Create *)

\* The account positions a Create reports.
CreatePositions == {0, 1, 2, 3, 5, 6, 7}

\* Raw instruction i is a well-formed launch-program Create whose reported
\* account positions, where present, hold valid indices.
CreateCase(i) ==
    /\ ResolvedId(i) = Ok(PumpFunId)
    /\ DecodedData(Raw(i)) = CreateSample
    /\ \A p \in CreatePositions : AbsentOrValid(i, p)

\* C28: a Create with n valid account indices decodes for every n; each
\* positional field is the unified-list address at its position when the
\* list is long enough and absent otherwise; position 4 is not reported.
C28_CreateShortAccountLists ==
    /\ \A i \in 1..Len(parsed_instructions) :
        CreateCase(i - 1) =>
            parsed_instructions[i] =
                [cls |-> "pumpfun.Create",
                 program_id |-> "6EF8rrecthR5Dkzon8Nwu78hRvfCKubJ14M5uBEwF6P",
                 program_name |-> "PumpFun",
                 instruction_name |-> "Create",
                 who |-> AddressAtPosition(i - 1, 7),
                 mint |-> AddressAtPosition(i - 1, 0),
                 mint_authority |-> AddressAtPosition(i - 1, 1),
                 bonding_curve |-> AddressAtPosition(i - 1, 2),
                 associated_bonding_curve |-> AddressAtPosition(i - 1, 3),
                 mpl_token_metadata |-> AddressAtPosition(i - 1, 5),
                 metadata |-> AddressAtPosition(i - 1, 6),
                 name |-> <<65>>,
                 symbol |-> <<66, 67>>,
                 uri |-> <<68>>]
    /\ pc = "raised" => ~CreateCase(idx)

\* A Create with three accounts was decoded: mint, mint authority and
\* bonding curve are reported, the other positions are absent.
C28_Witness ==
    /\ pc = "returned"
    /\ Len(tx.message.instructions) = 1
    /\ Raw(0) = Instruction(5, Data(CreateSample), <<5, 4, 3>>)
    /\ returned.val.instructions[1].mint = PumpFunId
    /\ returned.val.instructions[1].bonding_curve = TokenProgramId
    /\ returned.val.instructions[1].associated_bonding_curve = NoneStr
    /\ returned.val.instructions[1].who = NoneStr

-----------------------------------------------------------------------------
(* Discriminator extraction *)

\* C29: for every decoder and every data slice, the empty one included, a
\* key is extracted and route goes on to the table lookup; extraction never
\* fails, and a Token Program instruction with empty data decodes to the
\* Token Unknown record.
C29_DiscriminatorTotal ==
    /\ \A i \in 1..Len(parsed_instructions) : Key(i - 1).ok
    /\ pc = "raised" => (ResolvedId(idx).ok => Key(idx).ok)
    /\ \A i \in 1..Len(tx.message.instructions) :
        (ResolvedId(i - 1) = Ok(TokenProgramId) /\ DecodedData(Raw(i - 1)) = <<>>) =>
            /\ pc = "raised" => idx # i - 1
            /\ Len(parsed_instructions) >= i =>
                parsed_instructions[i].cls = "tokenProgram.Unknown"

-----------------------------------------------------------------------------
(* Token decimals *)

\* All pre-balances, then all post-balances.
Balances == tx.meta.preTokenBalances \o tx.meta.postTokenBalances

\* The mint of the token side of swap record r, and the decimals reported
\* for it and for the SOL side.
TokenMint(r) == IF r.cls = "pumpfun.Buy" THEN r.to_token ELSE r.from_token
TokenDecimals(r) ==
    IF r.cls = "pumpfun.Buy" THEN r.to_token_decimals ELSE r.from_token_decimals
SolDecimals(r) ==
    IF r.cls = "pumpfun.Buy" THEN r.from_token_decimals ELSE r.to_token_decimals

\* The mint of the event in the only nested instruction that survives
\* correlation with top-level instruction i.
OnlyEventMint(i) ==
    LET p == CHOOSE q \in Survivors(i) : TRUE
        data == tx.meta.innerInstructions[p[1]].instructions[p[2]].data
    IN PubKey_str(SubSeq(data, 17, 48))

\* C30: the decimals of the token side are 9 for wrapped SOL, otherwise those
\* of the first balance entry with that mint, pre-balances first; a buy or
\* sell with exactly one event whose mint is not wrapped SOL and is in
\* neither list fails.
C30_TokenDecimalsLookup ==
    /\ \A i \in 1..Len(parsed_instructions) :
        IsSwap(i - 1) =>
            LET r == parsed_instructions[i] IN
            /\ SolDecimals(r) = 9
            /\ IF TokenMint(r) = "So11111111111111111111111111111111111111112"
               THEN TokenDecimals(r) = 9
               ELSE \E k \in 1..Len(Balances) :
                        /\ Balances[k].mint = TokenMint(r)
                        /\ \A j \in 1..(k - 1) : Balances[j].mint # TokenMint(r)
                        /\ TokenDecimals(r) = Balances[k].uiTokenAmount.decimals
    /\ (pc = "loop" /\ idx < Len(tx.message.instructions) /\ IsSwap(idx)
            /\ Cardinality(Survivors(idx)) = 1
            /\ Len(tx.meta.innerInstructions[(CHOOSE q \in Survivors(idx) : TRUE)[1]]
                     .instructions[(CHOOSE q \in Survivors(idx) : TRUE)[2]].data) = 121
            /\ OnlyEventMint(idx) # "So11111111111111111111111111111111111111112"
            /\ \A k \in 1..Len(Balances) : Balances[k].mint # OnlyEventMint(idx)) =>
        ~ENABLED (ParseStep /\ pc' = "loop")

\* A buy of MintA was decoded with the 5 decimals of the first of its two
\* pre-balance entries, the post-balance entry saying 7.
C30_Witness ==
    /\ pc = "returned"
    /\ Len(tx.message.instructions) = 1
    /\ Len(tx.meta.preTokenBalances) = 3
    /\ returned.val.instructions[1].cls = "pumpfun.Buy"
    /\ returned.val.instructions[1].to_token = "MintA"
    /\ returned.val.instructions[1].to_token_decimals = 5

-----------------------------------------------------------------------------
(* The outer payload of a buy or sell *)

\* What may follow the discriminator in the outer instruction's data: nothing,
\* two bytes, or an amount and a limit of 8 bytes each.
PayloadSamples ==
    {<<>>, <<16, 39>>, <<232, 3, 0, 0, 0, 0, 0, 0, 1, 2, 3, 4, 5, 6, 7, 0>>}

\* Transaction t with the data of instruction i replaced by its first 8 bytes
\* and the payload.
WithPayload(t, i, payload) ==
    [t EXCEPT !.message.instructions[i + 1].data =
        Data(Slice(DecodedData(t.message.instructions[i + 1]), 0, 8) \o payload)]

\* The data of the first nested instruction, in encounter order, that
\* survives correlation with top-level instruction i.
FirstEventData(i) ==
    LET p == CHOOSE q \in Survivors(i) :
                 \A o \in Survivors(i) : q[1] < o[1] \/ (q[1] = o[1] /\ q[2] <= o[2])
    IN tx.meta.innerInstructions[p[1]].instructions[p[2]].data

\* The amounts of swap record r: the SOL side and the token side.
SolAmount(r) ==
    IF r.cls = "pumpfun.Buy" THEN r.from_token_amount ELSE r.to_token_amount
TokenAmount(r) ==
    IF r.cls = "pumpfun.Buy" THEN r.to_token_amount ELSE r.from_token_amount

\* C26: the record of a launch-program buy or sell is the same whatever
\* follows the discriminator in the outer instruction's data; who, mint and
\* both amounts are those of the first correlated inner event.
C26_SwapIgnoresOuterPayload ==
    \A i \in 1..Len(parsed_instructions) :
        IsSwap(i - 1) =>
            LET r == parsed_instructions[i]
                data == FirstEventData(i - 1)
            IN
            /\ TokenMint(r) = PubKey_str(Slice(data, 16, 48))
            /\ SolAmount(r) = from_bytes_little(Slice(data, 48, 56))
            /\ TokenAmount(r) = from_bytes_little(Slice(data, 56, 64))
            /\ r.who = PubKey_str(Slice(data, 65, 97))
            /\ \A payload \in PayloadSamples :
                RouteInstruction(WithPayload(tx, i - 1, payload), i - 1) = Ok(r)

\* A buy whose outer data says 10000 after the discriminator was decoded with
\* the event's 500 tokens for 1500000000 lamports.
C26_Witness ==
    /\ pc = "returned"
    /\ Len(tx.message.instructions) = 1
    /\ Slice(DecodedData(Raw(0)), 8, 10) = <<16, 39>>
    /\ returned.val.instructions[1].cls = "pumpfun.Buy"
    /\ returned.val.instructions[1].who = "Bob"
    /\ returned.val.instructions[1].from_token_amount = 1500000000
    /\ returned.val.instructions[1].to_token_amount = 500

-----------------------------------------------------------------------------
(* The inner-instruction correlator on its own *)

\* swap_list = self._parse_swap(tx, instruction_index)
ParseSwap(instruction_index) ==
    /\ correlated' = [instruction_index |-> instruction_index,
                      result |-> PumpFun_parse_swap(tx, instruction_index)]
    /\ UNCHANGED <<tx, parseVars, accountVars, resolveVars, sharedVars, callerVars>>

NextCorrelate ==
    \E k \in 0..(Len(tx.message.instructions) - 1) : ParseSwap(k)

SpecCorrelate == InitPump /\ [][NextCorrelate]_vars

RECURSIVE InOrder(_)
\* The positions <<group, instruction>> of S in encounter order: by group,
\* then by instruction within the group.
InOrder(S) ==
    IF S = {} THEN <<>>
    ELSE LET p == CHOOSE q \in S :
                      \A o \in S : q[1] < o[1] \/ (q[1] = o[1] /\ q[2] <= o[2])
         IN <<p>> \o InOrder(S \ {p})

\* The decodings of the nested instructions that survive correlation with
\* top-level instruction i, in encounter order; each is decoded from its data
\* after the first 16 bytes.
EventsOf(i) ==
    LET order == InOrder(Survivors(i)) IN
    [n \in 1..Len(order) |->
        LET data == tx.meta.innerInstructions[order[n][1]].instructions[order[n][2]].data
        IN SwapData_decode(Slice(data, 16, Len(data))).val]

\* C25: the list the correlator returns for top-level instruction k holds
\* exactly the decodings of the nested instructions of the groups whose index
\* is k and of the groups without an index, whose program id through the
\* unified list is that of instruction k and whose data has at least 16
\* bytes, in encounter order; a group with another index contributes nothing.
C25_CorrelatorResult ==
    (correlated # None /\ correlated.result.ok) =>
        correlated.result.val = EventsOf(correlated.instruction_index)

\* For instruction 0 of a transaction whose first group belongs to
\* instruction 1 and holds a buy event, and whose second group has no index
\* and holds a sell event, the correlator returned the sell event alone.
C25_Witness ==
    /\ correlated # None
    /\ correlated.instruction_index = 0
    /\ correlated.result.ok
    /\ Len(tx.meta.innerInstructions) = 2
    /\ "index" \in DOMAIN tx.meta.innerInstructions[1]
    /\ tx.meta.innerInstructions[1].index = 1
    /\ tx.meta.innerInstructions[1].instructions = <<BuyEventA>>
    /\ "index" \notin DOMAIN tx.meta.innerInstructions[2]
    /\ Len(correlated.result.val) = 1
    /\ correlated.result.val[1].mint = "MintB"

-----------------------------------------------------------------------------
(* parse and resolve as functions of their argument *)

RECURSIVE parse_from(_, _, _)
\* parse from loop position i on, with the list accumulated so far.
parse_from(t, i, parsed) ==
    IF i = Len(t.message.instructions)
    THEN Ok([cls |-> "ParsedTransaction",
             signatures |-> t.signatures,
             instructions |-> parsed])
    ELSE LET action == RouteInstruction(t, i) IN
         IF ~action.ok THEN action
         ELSE parse_from(t, i + 1, Append(parsed, action.val))

\* parser.parse, run on its own.
parse(t) == parse_from(t, 0, <<>>)

RECURSIVE resolve_from(_, _)
\* resolve from position k of the transformer tuple on.
resolve_from(instructions, k) ==
    IF k > Len(Transformers) THEN UnknownResolver_resolve(instructions)
    ELSE LET result == TransformerResolve(Transformers[k], instructions) IN
         IF result # None THEN result ELSE resolve_from(instructions, k + 1)

\* resolver.resolve, run on its own; the fields of a ParsedTransaction are
\* the keys of the argument.
resolve(parsed) ==
    resolve_from(DictGet(parsed, "instructions", <<>>), 1)

-----------------------------------------------------------------------------
(* Several callers of parse and resolve in one process *)

\* Each caller takes a transaction, calls parse on it and, when parse
\* returns, resolve on what it returned. The callers' steps interleave in any
\* order, one loop iteration at a time; they share id_to_handler and the
\* decoders it holds.

\* parsed_instructions = []
CallerEnter(c, t) ==
    /\ calls[c].pc = "idle"
    /\ calls' = [calls EXCEPT ![c] =
            [IdleCall EXCEPT !.tx = t, !.given = t, !.pc = "loop"]]
    /\ UNCHANGED <<tx, correlated, sharedVars, dispatch_log, parseVars, accountVars,
                   resolveVars>>

\* A variant of the loop body that registers the Unknown decoder it builds:
\* id_to_handler.setdefault(program_id, UnknownParser(program_id)).
CallerStep_registers_unknown(c) ==
    LET call == calls[c]
        t == call.tx
        instruction == t.message.instructions[call.idx + 1]
        program_id == ProgramIdOf(t, instruction)
        router == DictGet(id_to_handler, program_id.val, UnknownParser(program_id.val))
        self_desc_map == DictGet(desc_maps, router.cls, desc_map(router))
        decoded_data == DecodedData(instruction)
        discriminator == desc(router, decoded_data)
        parser_func ==
            DictGet(self_desc_map.table, discriminator.val, self_desc_map.default)
        action ==
            IF ~program_id.ok THEN program_id
            ELSE IF ~discriminator.ok THEN discriminator
            ELSE IF parser_func = NoneStr THEN Raise("NotImplementedError")
            ELSE Call(router, parser_func, t, call.idx, decoded_data)
    IN
    /\ call.pc = "loop"
    /\ call.idx < Len(t.message.instructions)
    /\ calls' = [calls EXCEPT ![c] =
            IF action.ok
            THEN [call EXCEPT !.parsed_instructions = Append(@, action.val),
                              !.idx = @ + 1]
            ELSE [call EXCEPT !.pc = "raised", !.returned = action]]
    /\ dispatch_log' =
            IF ~program_id.ok THEN dispatch_log
            ELSE dispatch_log \cup
                    {[decoder |-> router, data |-> decoded_data,
                      discriminator |-> discriminator,
                      parser_func |-> IF discriminator.ok THEN parser_func ELSE NoneStr]}
    /\ id_to_handler' =
            IF ~program_id.ok THEN id_to_handler
            ELSE [k \in DOMAIN id_to_handler \cup {program_id.val} |->
                    DictGet(id_to_handler, k, UnknownParser(k))]
    /\ UNCHANGED <<tx, correlated, desc_maps, parseVars, accountVars, resolveVars>>

\* A variant of the loop body that takes the decoder out of the registry:
\* id_to_handler.pop(program_id, UnknownParser(program_id)).
CallerStep_pops_handler(c) ==
    LET call == calls[c]
        t == call.tx
        instruction == t.message.instructions[call.idx + 1]
        program_id == ProgramIdOf(t, instruction)
        router == DictGet(id_to_handler, program_id.val, UnknownParser(program_id.val))
        self_desc_map == DictGet(desc_maps, router.cls, desc_map(router))
        decoded_data == DecodedData(instruction)
        discriminator == desc(router, decoded_data)
        parser_func ==
            DictGet(self_desc_map.table, discriminator.val, self_desc_map.default)
        action ==
            IF ~program_id.ok THEN program_id
            ELSE IF ~discriminator.ok THEN discriminator
            ELSE IF parser_func = NoneStr THEN Raise("NotImplementedError")
            ELSE Call(router, parser_func, t, call.idx, decoded_data)
    IN
    /\ call.pc = "loop"
    /\ call.idx < Len(t.message.instructions)
    /\ calls' = [calls EXCEPT ![c] =
            IF action.ok
            THEN [call EXCEPT !.parsed_instructions = Append(@, action.val),
                              !.idx = @ + 1]
            ELSE [call EXCEPT !.pc = "raised", !.returned = action]]
    /\ dispatch_log' =
            IF ~program_id.ok THEN dispatch_log
            ELSE dispatch_log \cup
                    {[decoder |-> router, data |-> decoded_data,
                      discriminator |-> discriminator,
                      parser_func |-> IF discriminator.ok THEN parser_func ELSE NoneStr]}
    /\ id_to_handler' =
            IF ~program_id.ok THEN id_to_handler
            ELSE [k \in DOMAIN id_to_handler \ {program_id.val} |-> id_to_handler[k]]
    /\ UNCHANGED <<tx, correlated, desc_maps, parseVars, accountVars, resolveVars>>

\* One iteration of the caller's for loop: the program id from accountKeys,
\* the router from id_to_handler (or a new UnknownParser), then route: the
\* discriminator by the router's desc, the function from its desc_map, the
\* call. Both dicts are only read.
CallerStep(c) ==
    LET call == calls[c]
        t == call.tx
        instruction == t.message.instructions[call.idx + 1]
        program_id == ProgramIdOf(t, instruction)
        router == DictGet(id_to_handler, program_id.val, UnknownParser(program_id.val))
        self_desc_map == DictGet(desc_maps, router.cls, desc_map(router))
        decoded_data == DecodedData(instruction)
        discriminator == desc(router, decoded_data)
        parser_func ==
            DictGet(self_desc_map.table, discriminator.val, self_desc_map.default)
        action ==
            IF ~program_id.ok THEN program_id
            ELSE IF ~discriminator.ok THEN discriminator
            ELSE IF parser_func = NoneStr THEN Raise("NotImplementedError")
            ELSE Call(router, parser_func, t, call.idx, decoded_data)
    IN
    /\ call.pc = "loop"
    /\ call.idx < Len(t.message.instructions)
    /\ calls' = [calls EXCEPT ![c] =
            IF action.ok
            THEN [call EXCEPT !.parsed_instructions = Append(@, action.val),
                              !.idx = @ + 1]
            ELSE [call EXCEPT !.pc = "raised", !.returned = action]]
    /\ dispatch_log' =
            IF ~program_id.ok THEN dispatch_log
            ELSE dispatch_log \cup
                    {[decoder |-> router, data |-> decoded_data,
                      discriminator |-> discriminator,
                      parser_func |-> IF discriminator.ok THEN parser_func ELSE NoneStr]}
    /\ UNCHANGED <<tx, correlated, sharedVars, parseVars, accountVars, resolveVars>>

\* The caller's loop is over: return ParsedTransaction(...).
CallerReturn(c) ==
    /\ calls[c].pc = "loop"
    /\ calls[c].idx = Len(calls[c].tx.message.instructions)
    /\ calls' = [calls EXCEPT ![c] =
            [@ EXCEPT !.pc = "returned",
                      !.returned = Ok([cls |-> "ParsedTransaction",
                                       signatures |-> calls[c].tx.signatures,
                                       instructions |-> calls[c].parsed_instructions])]]
    /\ UNCHANGED <<tx, correlated, sharedVars, dispatch_log, parseVars, accountVars,
                   resolveVars>>

\* resolved = resolve(parsed): the transformers in order, then the Unknown
\* rule. resolve reads its argument only.
CallerResolve(c) ==
    /\ calls[c].pc = "returned"
    /\ calls' = [calls EXCEPT ![c] =
            [@ EXCEPT !.pc = "resolved",
                      !.resolved = resolve_from(
                          DictGet(calls[c].returned.val, "instructions", <<>>), 1)]]
    /\ UNCHANGED <<tx, correlated, sharedVars, dispatch_log, parseVars, accountVars,
                   resolveVars>>

\* accountKeys of the callers' System, Vote and Token transactions.
CallerKeys == <<"Alice", "Bob", SystemProgramId, VoteProgramId, TokenProgramId>>

\* A launch-program buy with its event and the mint's balance entry.
BuyTransaction ==
    [Transaction(PumpStaticKeys, <<BuyInstruction>>, <<>>, <<>>)
        EXCEPT !.meta = Meta(<<TokenBalance("MintA", 6)>>, <<>>,
                             <<[index |-> 0, instructions |-> <<BuyEventA>>]>>)]

\* An instruction of a program without a decoder, then a System transfer.
VoteThenTransfer ==
    Transaction(CallerKeys,
                <<Instruction(3, Data(<<7>>), <<>>),
                  Instruction(2, Data(<<2, 0, 0, 0, 64, 66, 15, 0, 0, 0, 0, 0>>), <<0, 1>>)>>,
                <<>>, <<>>)

\* A System transfer, then a Token instruction that fails.
TransferThenFailure ==
    Transaction(CallerKeys,
                <<Instruction(2, Data(<<2, 0, 0, 0, 64, 66, 15, 0, 0, 0, 0, 0>>), <<0, 1>>),
                  Instruction(4, Data(<<>>), <<0>>)>>,
                <<>>, <<>>)

\* The transactions the callers take: the three above, and the buy once more
\* with a block time.
CallerTransactions ==
    {BuyTransaction, VoteThenTransfer, TransferThenFailure,
     [BuyTransaction EXCEPT !.blockTime = BlockTime(1700000000)]}

InitCallers ==
    /\ tx = EmptyTransaction
    /\ ParseIdle /\ AccountsIdle /\ ResolveIdle /\ CorrelateIdle /\ CallersIdle
    /\ parsed_data = None

NextCallers ==
    \E c \in Callers :
        \/ \E t \in CallerTransactions : CallerEnter(c, t)
        \/ CallerStep(c)
        \/ CallerReturn(c)
        \/ CallerResolve(c)

SpecCallers == InitCallers /\ [][NextCallers]_vars

-----------------------------------------------------------------------------
(* Properties of repeated and interleaved calls *)

\* Caller c's parse call is over.
Finished(c) == calls[c].pc \in {"returned", "resolved", "raised"}

SameButBlockTime(t, u) == [t EXCEPT !.blockTime = None] = [u EXCEPT !.blockTime = None]

ResultAsAlone ==
    \A c \in Callers :
        LET call == calls[c] IN
        /\ call.pc = "loop" =>
            \A i \in 1..Len(call.parsed_instructions) :
                RouteInstruction(call.given, i - 1) = Ok(call.parsed_instructions[i])
        /\ Finished(c) => call.returned = parse(call.given)
        /\ call.pc = "resolved" => call.resolved = resolve(parse(call.given).val)

====
